---- MODULE Spec2Model ----
(***************************************************************************)
(* Cross-region contact network and daily mobility machine.                *)
(*                                                                         *)
(*   CrossNetwork.py      add_cross_layer, add_cross_layer_multilayer      *)
(*   my_intervention.py   CrosserTravel, CrosserTravelMultilayer           *)
(*                                                                         *)
(* Edge weights (layer['beta']) are kept in tenths: 1.0 is 10, 0.6 is 6.   *)
(* A fraction is a pair <<numerator, denominator>>.                        *)
(***************************************************************************)
EXTENDS Integers, Sequences, FiniteSets, TLC

\* ------------------------------------------------------------------------
\* Bounds of the model
\* ------------------------------------------------------------------------
NAgents == 4
MaxDay == 4
MaxCrossPerPerson == 1
MaxEdges == 100
MaxTable == 3

Agents == 1..NAgents

\* ------------------------------------------------------------------------
\* Program constants
\* ------------------------------------------------------------------------
_region_name_a == "A"
_region_name_b == "B"
\* the region names a population can carry, in the order np.unique returns them
RegionOrder == <<"A", "B", "C">>
NaN == -1
None == -1
BetaOne == 10
DefaultCrossBeta == 6
\* sim['beta_layer'] for the cross layers, one value per layer
BetaLayer == [l \in {"cross", "cross_work", "cross_community", "cross_home"} |->
                IF l = "cross_community" THEN 5 ELSE IF l = "cross_home" THEN 7 ELSE 6]
WorkAgeMin == 22
WorkAgeMax == 65
\* significant bits of a double
MantissaBits == 53

DomesticLayersMulti == <<"home", "school", "work", "community">>
CrossLayersMulti == <<"cross_work", "cross_community", "cross_home">>

\* ------------------------------------------------------------------------
\* Bounded input sets
\* ------------------------------------------------------------------------
Seeds == {0, 1, 2}
FracTravelers == {<<0, 1>>, <<1, 2>>, <<2, 3>>}
PurposeFracs == {<<7, 5, 1>>, <<1, 0, 0>>, <<0, 0, 0>>}
FracCrossPerDay == {<<0, 1>>, <<1, 4>>, <<3, 2>>}
DurationRanges == {<<0, 1>>, <<1, 2>>}
OutboundWindows == {<<0, None, None>>, <<1, 2, None>>, <<1, 2, 3>>}
\* retained shares of the partial edge removals: 0, 0.3, 0.4, 0.5, 1
Fractions == {<<0, 1>>, <<3, 10>>, <<2, 5>>, <<1, 2>>, <<1, 1>>}

VARIABLES
    phase,            \* "built" (before cross-layer synthesis) | "synth" | "error" | "running"
    mode,             \* "single" (base + cross) | "multi" (four layers + purpose-routed cross layers)
    country,          \* people.country: fixed origin region of each agent
    age,              \* people.age
    position,         \* people.position: current location of each agent
    crosser,          \* people.crosser
    crosser_purpose,  \* people.crosser_purpose ("" when none)
    contacts,         \* people.contacts: layer key -> sequence of [p1, p2, beta]
    quarantined,      \* people.quarantined, as the set of agents flagged
    isolated,         \* people.isolated, as the set of agents flagged
    t,                \* sim.t of the next day-step
    return_day,       \* self._return_day (NaN: no pending return)
    cfg,              \* the mobility machine's parameters
    returning,        \* agents returned by step 1 of the last apply
    go_inds,          \* agents sent out by step 2 of the last apply
    synth_args,       \* the arguments of the cross-layer synthesis call
    iv,               \* the structural intervention installed: parameters, _applied, _stored_contacts
    iv2,              \* a second structural intervention of the same class, behind iv in the host's list
    hist,             \* what the intervention has done so far and the days the host has presented
    n_total,          \* number of edges touching the region, as counted by a removal
    n_remove,         \* number of edges the removal takes out (None: not computed)
    day_scale_pairs,  \* the day -> scale table ScaleRegionBaseBetaByPhase is built with
    scale,            \* the scale of its last apply (None: none yet)
    order,            \* sim['interventions']: the interventions in the order the host applies them
    pc,               \* the place in order of the intervention the host applies next on day t
    mask,             \* the MaskWearingLayerSpecific installed: layers, efficacy, start_day, end_day
    layer_config,     \* create_custom_population: the layer configurations, in dictionary order
    layer_contacts,   \* create_custom_population: the local variable layer_contacts
    layer_keys,       \* create_custom_population: the layer names appended so far
    seeds,            \* cross_layer_seed and the seed the host gives the global stream
    np_random,        \* the state of the global stream np.random
    twin              \* a second run of the same program on the same inputs

vars == <<phase, mode, country, age, position, crosser, crosser_purpose, contacts,
          quarantined, isolated, t, return_day, cfg, returning, go_inds, synth_args,
          iv, iv2, hist, n_total, n_remove, day_scale_pairs, scale,
          order, pc, mask, layer_config, layer_contacts, layer_keys,
          seeds, np_random, twin>>

\* the state of the mobility machine and of the synthesis, and the state of a
\* structural intervention
mobilityVars == <<crosser, crosser_purpose, quarantined, isolated, return_day, cfg,
                  returning, go_inds, synth_args>>
structVars == <<iv, iv2, hist, n_total, n_remove>>
scaleVars == <<day_scale_pairs, scale>>
hostVars == <<order, pc, mask>>
buildVars == <<layer_config, layer_contacts, layer_keys>>
twinVars == <<seeds, np_random, twin>>

\* ------------------------------------------------------------------------
\* Helpers
\* ------------------------------------------------------------------------
Max(a, b) == IF a >= b THEN a ELSE b
Min(a, b) == IF a <= b THEN a ELSE b
MinOf(S) == CHOOSE x \in S : \A y \in S : x <= y

RECURSIVE SetToSeq(_)
SetToSeq(S) == IF S = {} THEN <<>>
               ELSE LET m == MinOf(S) IN <<m>> \o SetToSeq(S \ {m})

Range(s) == {s[i] : i \in DOMAIN s}
SubsetsOfSize(S, n) == {X \in SUBSET S : Cardinality(X) = n}

IndsOf_IgnoreName(ctry, name) == {a \in Agents : ctry[a] \in Range(RegionOrder)}

\* np.where(countries == name)[0]
IndsOf(ctry, name) == {a \in Agents : ctry[a] = name}

\* np.unique(countries)
unique_countries(ctry) ==
    SelectSeq(RegionOrder, LAMBDA r : \E a \in Agents : ctry[a] = r)

\* name_a, name_b: region_a and region_b when given (the multilayer callers pass
\* 'A' and 'B'), else the first two of unique_countries
SelectedRegions(m, ctry) ==
    IF m = "multi" THEN <<_region_name_a, _region_name_b>>
    ELSE <<unique_countries(ctry)[1], unique_countries(ctry)[2]>>

\* inds[(ages[inds] >= 22) & (ages[inds] < 65)], the whole region when empty
WorkInds(inds, ages) ==
    LET w == {a \in inds : ages[a] >= WorkAgeMin /\ ages[a] < WorkAgeMax}
    IN IF w = {} THEN inds ELSE w

NTravelers_PlusOne(f, n) == (f[1] * n) \div f[2] + 1

\* max(1, int(frac_travelers * len(inds)))
NTravelers(f, n) == Max(1, (f[1] * n) \div f[2])

\* one edge per distinct partner of a crosser
RECURSIVE make_cross_edges_Dedup(_, _, _)
make_cross_edges_Dedup(crosser_inds, partners, cross_beta) ==
    IF crosser_inds = <<>> THEN <<>>
    ELSE LET c == Head(crosser_inds)
             first == {j \in DOMAIN partners[c] :
                          \A i \in DOMAIN partners[c] : i < j => partners[c][i] # partners[c][j]}
         IN [j \in 1..Cardinality(first) |->
                [p1 |-> c,
                 p2 |-> partners[c][CHOOSE i \in first :
                                       Cardinality({h \in first : h < i}) = j - 1],
                 beta |-> cross_beta]]
            \o make_cross_edges_Dedup(Tail(crosser_inds), partners, cross_beta)

\* the purposes of a draw taken against the fractions as given
PurposeSupport_Raw(pf) ==
    (IF pf[1] > 0 THEN {"work"} ELSE {})
    \cup (IF pf[2] > 0 THEN {"visit"} ELSE {})
    \cup (IF pf[1] + pf[2] < 1 THEN {"undocumented"} ELSE {})

\* make_cross_edges: n_per_person edges per crosser, crosser first
RECURSIVE make_cross_edges(_, _, _)
make_cross_edges(crosser_inds, partners, cross_beta) ==
    IF crosser_inds = <<>> THEN <<>>
    ELSE LET c == Head(crosser_inds)
         IN [j \in DOMAIN partners[c] |->
                [p1 |-> c, p2 |-> partners[c][j], beta |-> cross_beta]]
            \o make_cross_edges(Tail(crosser_inds), partners, cross_beta)

\* the partner draws of rng.choice(partner_inds, size=k, replace=True), one per crosser
PartnerDraws(crosser_inds, partner_inds, k) ==
    [crosser_inds -> [1..k -> partner_inds]]

\* the purposes a draw r in [0, 1) can give under the normalized proportions
PurposeSupport(pf) ==
    IF pf[1] + pf[2] + pf[3] <= 0 THEN {"work"}
    ELSE (IF pf[1] > 0 THEN {"work"} ELSE {})
         \cup (IF pf[2] > 0 THEN {"visit"} ELSE {})
         \cup (IF pf[3] > 0 THEN {"undocumented"} ELSE {})

\* the early returns: fewer than two distinct regions, or a selected region is empty
SynthNoOp(m, ctry) ==
    \/ Len(unique_countries(ctry)) < 2
    \/ IndsOf(ctry, SelectedRegions(m, ctry)[1]) = {}
    \/ IndsOf(ctry, SelectedRegions(m, ctry)[2]) = {}

SynthOutcome_Raise(noop) == IF noop THEN "error" ELSE "synth"

\* how the call ends: 'return popdict' on the early returns and at the end
SynthOutcome(noop) == "synth"

\* ------------------------------------------------------------------------
\* Population before cross-layer synthesis
\* ------------------------------------------------------------------------
\* agents 1..nA live in region A, the others in region B
Layout(nA) == [a \in Agents |-> IF a <= nA THEN _region_name_a ELSE _region_name_b]

\* a population with a third region: 1..nA in A, the next nB in B, the others in C
Layout3(nA, nB) ==
    [a \in Agents |-> IF a <= nA THEN RegionOrder[1]
                      ELSE IF a <= nA + nB THEN RegionOrder[2] ELSE RegionOrder[3]]

\* the traveler fraction add_cross_layer / add_cross_layer_multilayer is called with
SynthArgs == [frac_travelers : FracTravelers]

AgeLayouts == {[a \in Agents |-> 30], [a \in Agents |-> 20],
               [a \in Agents |-> IF a % 2 = 1 THEN 30 ELSE 20]}

\* a region-internal layer as the population builder leaves it: weight 1.0 on every edge
DomesticEdges == [i \in 1..(NAgents - 1) |-> [p1 |-> i, p2 |-> i + 1, beta |-> BetaOne]]

BaseContacts(m) ==
    IF m = "single" THEN [l \in {"base"} |-> DomesticEdges]
    ELSE [l \in Range(DomesticLayersMulti) |-> DomesticEdges]

NoCrosser == [a \in Agents |-> FALSE]
NoPurpose == [a \in Agents |-> ""]
NoReturn == [a \in Agents |-> NaN]
NoCfg == [frac_cross_per_day |-> <<0, 1>>, duration_min |-> 1, duration_max |-> 1,
          start_day |-> 0, end_day_outbound |-> None, resume_day_outbound |-> None,
          cross_betas |-> [l \in {} |-> 0]]

\* no structural intervention installed
NoIntervention == [kind |-> "", start_day |-> 0, end_day |-> None, fraction |-> <<1, 1>>,
                   applied |-> FALSE, stored |-> <<>>]
NoHistory == [removed |-> 0, restored |-> 0, before |-> <<>>, days |-> {}]

\* no MaskWearingLayerSpecific installed
NoMask == [layers |-> <<>>, efficacy |-> BetaOne, start_day |-> 0, end_day |-> None]

\* layer_contacts before the first assignment to it
Unbound == [bound |-> FALSE, edges |-> <<>>]

\* no seeded run, and no second run
NoSeeds == [cross_layer_seed |-> 0, rand_seed |-> 0]
NoTwin == [on |-> FALSE]

InitBuilt ==
    /\ phase = "built"
    /\ mode \in {"single", "multi"}
    /\ \E nA \in 0..NAgents : \E nB \in 0..(NAgents - nA) : country = Layout3(nA, nB)
    /\ synth_args \in SynthArgs
    /\ age \in AgeLayouts
    /\ position = country
    /\ crosser = NoCrosser
    /\ crosser_purpose = NoPurpose
    /\ contacts = BaseContacts(mode)
    /\ quarantined = {} /\ isolated = {}
    /\ t = 0
    /\ return_day = NoReturn
    /\ cfg = NoCfg
    /\ returning = {} /\ go_inds = {}
    /\ iv = NoIntervention /\ iv2 = NoIntervention /\ hist = NoHistory
    /\ n_total = 0 /\ n_remove = None
    /\ day_scale_pairs = <<>> /\ scale = None
    /\ order = <<>> /\ pc = 1 /\ mask = NoMask
    /\ layer_config = <<>> /\ layer_contacts = Unbound /\ layer_keys = <<>>
    /\ seeds = NoSeeds /\ np_random = 0 /\ twin = NoTwin

\* ------------------------------------------------------------------------
\* CrossNetwork.add_cross_layer
\* ------------------------------------------------------------------------
\* n_cross_per_person of the call: the argument when the caller passes one
CrossPerPerson(args) ==
    IF "n_cross_per_person" \in DOMAIN args THEN {args.n_cross_per_person}
    ELSE 1..MaxCrossPerPerson

\* (frac_work, frac_visit, frac_undocumented) of the call
PurposeFracsOf(args) ==
    IF "frac_purpose" \in DOMAIN args THEN {args.frac_purpose} ELSE PurposeFracs

\* the 'cross' layer built from the travelers and their partner draws
cross_layer(travelers_A, travelers_B, pA, pB, cross_beta) ==
    make_cross_edges(SetToSeq(travelers_A), pA, cross_beta)
    \o make_cross_edges(SetToSeq(travelers_B), pB, cross_beta)

\* popdict['crosser'][travelers_A] = True; popdict['crosser'][travelers_B] = True
FlagCrossers(travelers_A, travelers_B) ==
    [a \in Agents |-> a \in travelers_A \cup travelers_B]

AddCrossLayer ==
    /\ phase = "built" /\ mode = "single"
    /\ phase' = SynthOutcome(SynthNoOp(mode, country))
    /\ LET names == SelectedRegions(mode, country)
           inds_A == IndsOf(country, names[1])
           inds_B == IndsOf(country, names[2])
           f == synth_args.frac_travelers
       IN IF SynthNoOp(mode, country)
          THEN /\ crosser' = NoCrosser
               /\ UNCHANGED contacts
          ELSE \E k \in CrossPerPerson(synth_args) :
               \E travelers_A \in SubsetsOfSize(inds_A, NTravelers(f, Cardinality(inds_A))),
                  travelers_B \in SubsetsOfSize(inds_B, NTravelers(f, Cardinality(inds_B))) :
               \E pA \in PartnerDraws(travelers_A, inds_B, k),
                  pB \in PartnerDraws(travelers_B, inds_A, k) :
                  /\ crosser' = FlagCrossers(travelers_A, travelers_B)
                  /\ contacts' = contacts @@
                        ("cross" :> cross_layer(travelers_A, travelers_B, pA, pB, DefaultCrossBeta))
    /\ UNCHANGED <<mode, country, age, position, crosser_purpose, quarantined, isolated,
                   t, return_day, cfg, returning, go_inds, synth_args>>
    /\ UNCHANGED structVars
    /\ UNCHANGED scaleVars
    /\ UNCHANGED hostVars
    /\ UNCHANGED buildVars
    /\ UNCHANGED twinVars

\* ------------------------------------------------------------------------
\* CrossNetwork.add_cross_layer_multilayer
\* ------------------------------------------------------------------------
\* crosser_purpose[tinds] = np.where(work_mask, 'work', np.where(visit_mask, 'visit', 'undocumented'))
AssignPurpose(purp) ==
    [a \in Agents |-> IF a \in DOMAIN purp THEN purp[a] ELSE ""]

WithPurpose(travelers, purp, p) == {a \in travelers : purp[a] = p}

\* a layer is added to contacts only when it has at least one edge
AddIfAny(cts, lkey, edges) == IF Len(edges) > 0 THEN cts @@ (lkey :> edges) ELSE cts

\* the three purpose-routed layers, from the travelers, their purposes and the partner draws
cross_layers_multilayer(cts, travelers_A, travelers_B, purp, d, cross_beta) ==
    LET work_A == WithPurpose(travelers_A, purp, "work")
        work_B == WithPurpose(travelers_B, purp, "work")
        visit_A == WithPurpose(travelers_A, purp, "visit")
        visit_B == WithPurpose(travelers_B, purp, "visit")
        layer_w == make_cross_edges(SetToSeq(work_A), d.wA, cross_beta)
                   \o make_cross_edges(SetToSeq(work_B), d.wB, cross_beta)
        layer_c == make_cross_edges(SetToSeq(travelers_A), d.cA, cross_beta)
                   \o make_cross_edges(SetToSeq(travelers_B), d.cB, cross_beta)
        layer_h == make_cross_edges(SetToSeq(visit_A), d.hA, cross_beta)
                   \o make_cross_edges(SetToSeq(visit_B), d.hB, cross_beta)
    IN AddIfAny(AddIfAny(AddIfAny(cts, "cross_work", layer_w),
                         "cross_community", layer_c),
                "cross_home", layer_h)

\* every outcome of the six make_cross_edges calls
MultiDraws(travelers_A, travelers_B, purp, inds_A, inds_B, ages, k) ==
    [wA : PartnerDraws(WithPurpose(travelers_A, purp, "work"), WorkInds(inds_B, ages), k),
     wB : PartnerDraws(WithPurpose(travelers_B, purp, "work"), WorkInds(inds_A, ages), k),
     cA : PartnerDraws(travelers_A, inds_B, k),
     cB : PartnerDraws(travelers_B, inds_A, k),
     hA : PartnerDraws(WithPurpose(travelers_A, purp, "visit"), inds_B, k),
     hB : PartnerDraws(WithPurpose(travelers_B, purp, "visit"), inds_A, k)]

AddCrossLayerMultilayer ==
    /\ phase = "built" /\ mode = "multi"
    /\ phase' = SynthOutcome(SynthNoOp(mode, country))
    /\ LET names == SelectedRegions(mode, country)
           inds_A == IndsOf(country, names[1])
           inds_B == IndsOf(country, names[2])
           f == synth_args.frac_travelers
       IN IF SynthNoOp(mode, country)
          THEN UNCHANGED <<crosser, crosser_purpose, contacts>>
          ELSE \E k \in CrossPerPerson(synth_args), pf \in PurposeFracsOf(synth_args) :
               \E travelers_A \in SubsetsOfSize(inds_A, NTravelers(f, Cardinality(inds_A))),
                  travelers_B \in SubsetsOfSize(inds_B, NTravelers(f, Cardinality(inds_B))) :
               \E purp \in [travelers_A \cup travelers_B -> PurposeSupport(pf)] :
               \E d \in MultiDraws(travelers_A, travelers_B, purp, inds_A, inds_B, age, k) :
                  /\ crosser' = FlagCrossers(travelers_A, travelers_B)
                  /\ crosser_purpose' = AssignPurpose(purp)
                  /\ contacts' = cross_layers_multilayer(contacts, travelers_A, travelers_B,
                                                         purp, d, DefaultCrossBeta)
    /\ UNCHANGED <<mode, country, age, position, quarantined, isolated,
                   t, return_day, cfg, returning, go_inds, synth_args>>
    /\ UNCHANGED structVars
    /\ UNCHANGED scaleVars
    /\ UNCHANGED hostVars
    /\ UNCHANGED buildVars
    /\ UNCHANGED twinVars

NextSynth == AddCrossLayer \/ AddCrossLayerMultilayer

SpecSynth == InitBuilt /\ [][NextSynth]_vars

\* ------------------------------------------------------------------------
\* The simulation after construction: a synthesized population and an
\* initialized mobility machine
\* ------------------------------------------------------------------------
PurposeSeq == <<"work", "visit", "undocumented">>

\* the n lowest ids of S
FirstN(S, n) == {a \in S : Cardinality({b \in S : b < a}) < n}
Pick(S, i) == SetToSeq(S)[(i % Cardinality(S)) + 1]

\* one outcome of the partner draws and of the purpose draws per seed
SeededDraws(crosser_inds, partner_inds, k, s) ==
    [c \in crosser_inds |-> [j \in 1..k |-> Pick(partner_inds, s + j - 1)]]
SeededPurpose(travelers, s) ==
    [a \in travelers |-> PurposeSeq[((s + a) % 3) + 1]]
SeededMultiDraws(travelers_A, travelers_B, purp, inds_A, inds_B, ages, k, s) ==
    [wA |-> SeededDraws(WithPurpose(travelers_A, purp, "work"), WorkInds(inds_B, ages), k, s),
     wB |-> SeededDraws(WithPurpose(travelers_B, purp, "work"), WorkInds(inds_A, ages), k, s),
     cA |-> SeededDraws(travelers_A, inds_B, k, s),
     cB |-> SeededDraws(travelers_B, inds_A, k, s),
     hA |-> SeededDraws(WithPurpose(travelers_A, purp, "visit"), inds_B, k, s),
     hB |-> SeededDraws(WithPurpose(travelers_B, purp, "visit"), inds_A, k, s)]

\* CrosserTravel.__init__ / CrosserTravelMultilayer.__init__ and initialize
MachineCfg(m, fr, dr, w) ==
    [frac_cross_per_day |-> fr, duration_min |-> dr[1], duration_max |-> dr[2],
     start_day |-> w[1], end_day_outbound |-> w[2],
     resume_day_outbound |-> IF m = "single" THEN None ELSE w[3],
     cross_betas |-> IF m = "single" THEN [l \in {"cross"} |-> BetaLayer[l]]
                     ELSE [l \in Range(CrossLayersMulti) |-> BetaLayer[l]]]

\* the population add_cross_layer / add_cross_layer_multilayer hands to the simulation
\* under seed s: agents, crossers, purposes and layers
SynthesizedPopulation(m, s) ==
    LET ctry == Layout(NAgents \div 2)
        f == synth_args.frac_travelers
        inds_A == IndsOf(ctry, _region_name_a)
        inds_B == IndsOf(ctry, _region_name_b)
        k == MaxCrossPerPerson
        travelers_A == FirstN(inds_A, NTravelers(f, Cardinality(inds_A)))
        travelers_B == FirstN(inds_B, NTravelers(f, Cardinality(inds_B)))
        purp == SeededPurpose(travelers_A \cup travelers_B, s)
    IN /\ mode = m
       /\ country = ctry
       /\ position = ctry
       /\ crosser = FlagCrossers(travelers_A, travelers_B)
       /\ IF m = "single"
          THEN /\ crosser_purpose = NoPurpose
               /\ contacts = BaseContacts(m) @@
                     ("cross" :> cross_layer(travelers_A, travelers_B,
                                     SeededDraws(travelers_A, inds_B, k, s),
                                     SeededDraws(travelers_B, inds_A, k, s),
                                     DefaultCrossBeta))
          ELSE /\ crosser_purpose = AssignPurpose(purp)
               /\ contacts = cross_layers_multilayer(BaseContacts(m),
                                 travelers_A, travelers_B, purp,
                                 SeededMultiDraws(travelers_A, travelers_B, purp,
                                                  inds_A, inds_B, age, k, s),
                                 DefaultCrossBeta)

Init ==
    /\ phase = "running"
    /\ t = 0
    /\ quarantined = {} /\ isolated = {}
    /\ return_day = NoReturn
    /\ returning = {} /\ go_inds = {}
    /\ iv = NoIntervention /\ iv2 = NoIntervention /\ hist = NoHistory
    /\ n_total = 0 /\ n_remove = None
    /\ day_scale_pairs = <<>> /\ scale = None
    /\ order = <<>> /\ pc = 1 /\ mask = NoMask
    /\ layer_config = <<>> /\ layer_contacts = Unbound /\ layer_keys = <<>>
    /\ seeds = NoSeeds /\ np_random = 0 /\ twin = NoTwin
    /\ age = [a \in Agents |-> IF a % 2 = 1 THEN 30 ELSE 20]
    /\ synth_args = [frac_travelers |-> <<1, 2>>]
    /\ \E m \in {"single", "multi"}, s \in Seeds : SynthesizedPopulation(m, s)
    /\ \E fr \in FracCrossPerDay, dr \in DurationRanges, w \in OutboundWindows :
          /\ mode = "single" => w[3] = None
          /\ cfg = MachineCfg(mode, fr, dr, w)

\* ------------------------------------------------------------------------
\* The daily mobility step
\* ------------------------------------------------------------------------
\* the health-status flags the host engine presents on a day: at most one agent held
Holds == {<<{}, {}>>} \cup {<<{a}, {}>> : a \in Agents} \cup {<<{}, {a}>> : a \in Agents}

Returning_IgnoreHold(cr, rd, day, q, i) ==
    {a \in Agents : cr[a] /\ rd[a] = day}

\* returning = crosser & (return_day == t) & ~people.quarantined & ~people.isolated
Returning(cr, rd, day, q, i) ==
    {a \in Agents : cr[a] /\ rd[a] = day /\ a \notin q /\ a \notin i}

\* CrosserTravel: t >= start_day and (end_day_outbound is None or t < end_day_outbound)
allow_outbound_single(c, day) ==
    /\ day >= c.start_day
    /\ (c.end_day_outbound = None \/ day < c.end_day_outbound)

allow_outbound_NoResume(c, day) ==
    /\ day >= c.start_day
    /\ (c.end_day_outbound = None \/ day < c.end_day_outbound)

\* CrosserTravelMultilayer: allow_outbound
allow_outbound(c, day) ==
    /\ day >= c.start_day
    /\ \/ c.end_day_outbound = None
       \/ day < c.end_day_outbound
       \/ (c.resume_day_outbound # None /\ day >= c.resume_day_outbound)

AtHome_IgnorePending(cr, rd, q, i) ==
    {a \in Agents : cr[a] /\ a \notin q /\ a \notin i}

AtHome_NoCrosserMask(cr, rd, q, i) ==
    {a \in Agents : rd[a] = NaN /\ a \notin q /\ a \notin i}

\* at_home = crosser & np.isnan(return_day) & ~people.quarantined & ~people.isolated
AtHome(cr, rd, q, i) ==
    {a \in Agents : cr[a] /\ rd[a] = NaN /\ a \notin q /\ a \notin i}

NGo_Truncate(n_at_home, frac) ==
    IF n_at_home > 0 /\ frac[1] > 0
    THEN Min(Max(0, (n_at_home * frac[1]) \div frac[2]), n_at_home)
    ELSE 0

\* n_go = min(max(0, int(n_at_home * frac + 0.5)), n_at_home), 0 when nobody is
\* at home or the fraction is not positive
NGo(n_at_home, frac) ==
    IF n_at_home > 0 /\ frac[1] > 0
    THEN Min(Max(0, (2 * n_at_home * frac[1] + frac[2]) \div (2 * frac[2])), n_at_home)
    ELSE 0

Destination_AlwaysB(ctry) == _region_name_b

\* np.where(from_a, region_name_b, region_name_a)
Destination(ctry) == IF ctry = _region_name_a THEN _region_name_b ELSE _region_name_a

\* np.random.randint(duration_min, duration_max + 1)
Durations(c) == c.duration_min..c.duration_max

\* is_abroad = position != country
IsAbroad(pos, ctry) == {a \in Agents : pos[a] # ctry[a]}

DomesticResync_ZeroOnly(edges, abroad) ==
    [n \in DOMAIN edges |->
        [edges[n] EXCEPT !.beta = IF edges[n].p1 \in abroad \/ edges[n].p2 \in abroad
                                  THEN 0 ELSE edges[n].beta]]

DomesticResync_Increment(edges, abroad) ==
    [n \in DOMAIN edges |->
        [edges[n] EXCEPT !.beta = IF edges[n].p1 \in abroad \/ edges[n].p2 \in abroad
                                  THEN 0 ELSE Min(edges[n].beta + 5, BetaOne)]]

\* beta[edge_abroad] = 0.0; beta[~edge_abroad] = 1.0
DomesticResync(edges, abroad) ==
    [n \in DOMAIN edges |->
        [edges[n] EXCEPT !.beta = IF edges[n].p1 \in abroad \/ edges[n].p2 \in abroad
                                  THEN 0 ELSE BetaOne]]

CrossResync_FirstEndpoint(edges, abroad, cb) ==
    [n \in DOMAIN edges |->
        [edges[n] EXCEPT !.beta = IF edges[n].p1 \in abroad THEN cb ELSE 0]]

\* CrosserTravel: beta[edge_abroad] = cross_beta; beta[~edge_abroad] = 0.0
CrossResync(edges, abroad, cb) ==
    [n \in DOMAIN edges |->
        [edges[n] EXCEPT !.beta = IF edges[n].p1 \in abroad \/ edges[n].p2 \in abroad
                                  THEN cb ELSE 0]]

\* c_ind = p1[i] if crosser[p1[i]] else p2[i]
CInd(e, cr) == IF cr[e.p1] THEN e.p1 ELSE e.p2

\* CrosserTravelMultilayer: the loop that sets active[i]
Active(lkey, e, abroad, cr, purpose) ==
    LET c_ind == CInd(e, cr)
    IN /\ c_ind \in abroad
       /\ ~(lkey = "cross_work" /\ purpose[c_ind] # "work")
       /\ ~(lkey = "cross_home" /\ purpose[c_ind] # "visit")

CrossActivate_DropInactive(lkey, edges, abroad, cr, purpose, cb) ==
    SelectSeq([n \in DOMAIN edges |-> [edges[n] EXCEPT !.beta = cb]],
              LAMBDA e : Active(lkey, e, abroad, cr, purpose))

\* beta[active] = cb; beta[~active] = 0.0
CrossActivate(lkey, edges, abroad, cr, purpose, cb) ==
    [n \in DOMAIN edges |->
        [edges[n] EXCEPT !.beta = IF Active(lkey, edges[n], abroad, cr, purpose)
                                  THEN cb ELSE 0]]

\* steps 1 and 2 of apply: the positions and return days after the returns and
\* the departures of agents go with stay lengths dur
AfterReturn(pos, ret) == [a \in Agents |-> IF a \in ret THEN country[a] ELSE pos[a]]
ClearReturn_Keep(rd, ret) == rd
ClearReturn(rd, ret) == [a \in Agents |-> IF a \in ret THEN NaN ELSE rd[a]]
AfterDeparture(pos, go) ==
    [a \in Agents |-> IF a \in go THEN Destination(country[a]) ELSE pos[a]]
SetReturn(rd, go, dur, day) ==
    [a \in Agents |-> IF a \in go THEN day + dur[a] ELSE rd[a]]

\* steps 1 and 2, shared by the two machines; allow is the outbound window of the day
Travel(allow) ==
    \E h \in Holds :
       LET ret == Returning(crosser, return_day, t, h[1], h[2])
           pos1 == AfterReturn(position, ret)
           rd1 == ClearReturn(return_day, ret)
           at_home == AtHome(crosser, rd1, h[1], h[2])
           n_go == IF allow THEN NGo(Cardinality(at_home), cfg.frac_cross_per_day) ELSE 0
       IN \E go \in SubsetsOfSize(at_home, n_go) :
          \E dur \in [go -> Durations(cfg)] :
             /\ quarantined' = h[1]
             /\ isolated' = h[2]
             /\ returning' = ret
             /\ go_inds' = go
             /\ position' = AfterDeparture(pos1, go)
             /\ return_day' = SetReturn(rd1, go, dur, t)

\* CrosserTravel.apply, step 3: the weights of 'base' and 'cross'
CrosserTravelWeights(cts, abroad) ==
    [lkey \in DOMAIN cts |->
          IF lkey = "base" THEN DomesticResync(cts[lkey], abroad)
          ELSE IF lkey = "cross"
               THEN CrossResync(cts[lkey], abroad, cfg.cross_betas["cross"])
               ELSE cts[lkey]]

\* CrosserTravelMultilayer.apply, steps 3 and 4: the weights of the region-internal
\* layers and of the purpose-routed cross layers
CrosserTravelMultilayerWeights(cts, abroad) ==
    [lkey \in DOMAIN cts |->
          IF lkey \in Range(DomesticLayersMulti)
          THEN DomesticResync(cts[lkey], abroad)
          ELSE IF lkey \in Range(CrossLayersMulti)
               THEN CrossActivate(lkey, cts[lkey], abroad,
                                  crosser, crosser_purpose, cfg.cross_betas[lkey])
               ELSE cts[lkey]]

\* CrosserTravel.apply
CrosserTravelApply ==
    /\ phase = "running" /\ mode = "single" /\ t <= MaxDay
    /\ Travel(allow_outbound_single(cfg, t))
    /\ contacts' = CrosserTravelWeights(contacts, IsAbroad(position', country))
    /\ t' = t + 1
    /\ UNCHANGED <<phase, mode, country, age, crosser, crosser_purpose, cfg, synth_args>>
    /\ UNCHANGED structVars
    /\ UNCHANGED scaleVars
    /\ UNCHANGED hostVars
    /\ UNCHANGED buildVars
    /\ UNCHANGED twinVars

\* CrosserTravelMultilayer.apply
CrosserTravelMultilayerApply ==
    /\ phase = "running" /\ mode = "multi" /\ t <= MaxDay
    /\ Travel(allow_outbound(cfg, t))
    /\ contacts' = CrosserTravelMultilayerWeights(contacts, IsAbroad(position', country))
    /\ t' = t + 1
    /\ UNCHANGED <<phase, mode, country, age, crosser, crosser_purpose, cfg, synth_args>>
    /\ UNCHANGED structVars
    /\ UNCHANGED scaleVars
    /\ UNCHANGED hostVars
    /\ UNCHANGED buildVars
    /\ UNCHANGED twinVars

Next == CrosserTravelApply \/ CrosserTravelMultilayerApply

Spec == Init /\ [][Next]_vars

\* the host applies the machine on every day of the run
SpecFair == Spec /\ WF_vars(Next)

\* ------------------------------------------------------------------------
\* Double-precision arithmetic, as far as 'int(n_total * (1 - self.fraction))'
\* needs it. A float is a record [m, e]: the integer with the little-endian bits
\* m, times 2^e.
\* ------------------------------------------------------------------------

\* little-endian bits of a non-negative integer
RECURSIVE IntToBits(_)
IntToBits(n) == IF n = 0 THEN <<>> ELSE <<n % 2>> \o IntToBits(n \div 2)

RECURSIVE BitsToInt(_)
BitsToInt(b) == IF b = <<>> THEN 0 ELSE Head(b) + 2 * BitsToInt(Tail(b))

\* little-endian bits of a big-endian sequence of hexadecimal digits
RECURSIVE HexBits(_)
HexBits(h) ==
    IF h = <<>> THEN <<>>
    ELSE LET d == h[Len(h)]
         IN <<d % 2, (d \div 2) % 2, (d \div 4) % 2, (d \div 8) % 2>>
            \o HexBits(SubSeq(h, 1, Len(h) - 1))

\* drop the leading (most significant) zero bits
RECURSIVE Trim(_)
Trim(b) == IF b = <<>> \/ b[Len(b)] = 1 THEN b ELSE Trim(SubSeq(b, 1, Len(b) - 1))

RECURSIVE Inc(_)
Inc(b) == IF b = <<>> THEN <<1>>
          ELSE IF Head(b) = 0 THEN <<1>> \o Tail(b) ELSE <<0>> \o Inc(Tail(b))

\* b * n for a small non-negative integer n
RECURSIVE MulCarry(_, _, _)
MulCarry(b, n, carry) ==
    IF b = <<>> THEN IntToBits(carry)
    ELSE LET v == Head(b) * n + carry
         IN <<v % 2>> \o MulCarry(Tail(b), n, v \div 2)

\* a - b for a >= b, both little-endian
RECURSIVE SubBorrow(_, _, _)
SubBorrow(a, b, borrow) ==
    IF a = <<>> THEN <<>>
    ELSE LET bb == IF b = <<>> THEN 0 ELSE Head(b)
             v == Head(a) - bb - borrow
         IN <<v % 2>> \o SubBorrow(Tail(a), IF b = <<>> THEN <<>> ELSE Tail(b),
                                    IF v < 0 THEN 1 ELSE 0)

\* a binary float: the value of the bits m times 2^e
\* round to nearest, ties to even, to MantissaBits significant bits
Round(x) ==
    LET m == Trim(x.m)
        L == Len(m)
        k == L - MantissaBits
    IN IF k <= 0 THEN [m |-> m, e |-> x.e]
       ELSE LET kept == SubSeq(m, k + 1, L)
                guard == m[k]
                sticky == \E i \in 1..(k - 1) : m[i] = 1
                up == guard = 1 /\ (sticky \/ kept[1] = 1)
                r == IF up THEN Inc(kept) ELSE kept
            IN IF Len(r) > MantissaBits
               THEN [m |-> Tail(r), e |-> x.e + k + 1]
               ELSE [m |-> r, e |-> x.e + k]

\* the double written 0x[h1].[h2...]p[p] by float.hex
Double(h, p) == [m |-> Trim(HexBits(h)), e |-> p - 4 * (Len(h) - 1)]

\* n * x in double precision, n an integer
FMulInt(n, x) == Round([m |-> MulCarry(x.m, n, 0), e |-> x.e])

\* 1.0 - x in double precision, for 0 <= x <= 1
FOneMinus(x) ==
    IF x.m = <<>> THEN [m |-> <<1>>, e |-> 0]
    ELSE IF x.e >= 0 THEN [m |-> <<>>, e |-> 0]
    ELSE Round([m |-> SubBorrow([i \in 1..(1 - x.e) |-> IF i = 1 - x.e THEN 1 ELSE 0], x.m, 0),
                e |-> x.e])

\* int(x) for x >= 0
FTrunc(x) ==
    LET m == Trim(x.m)
    IN IF x.e >= 0 THEN BitsToInt([i \in 1..x.e |-> 0] \o m)
       ELSE IF -x.e >= Len(m) THEN 0
       ELSE BitsToInt(SubSeq(m, 1 - x.e, Len(m)))

\* the doubles of the retained shares, as float.hex writes them
DoubleOf(fr) ==
    CASE fr = <<0, 1>> -> [m |-> <<>>, e |-> 0]
      [] fr = <<3, 10>> -> Double(<<1, 3, 3, 3, 3, 3, 3, 3, 3, 3, 3, 3, 3, 3>>, -2)
      [] fr = <<2, 5>> -> Double(<<1, 9, 9, 9, 9, 9, 9, 9, 9, 9, 9, 9, 9, 10>>, -2)
      [] fr = <<1, 2>> -> Double(<<1, 0, 0, 0, 0, 0, 0, 0, 0, 0, 0, 0, 0, 0>>, -1)
      [] fr = <<1, 1>> -> Double(<<1, 0, 0, 0, 0, 0, 0, 0, 0, 0, 0, 0, 0, 0>>, 0)

\* n_remove = int(n_total * (1 - self.fraction))
NRemove(n, fr) == FTrunc(FMulInt(n, FOneMinus(DoubleOf(fr))))

\* ------------------------------------------------------------------------
\* Structural interventions: reduce_region_a_contacts, WorkFromHomeA,
\* SchoolCloseA, CommunityRestrictA
\* ------------------------------------------------------------------------
Kinds == {"reduce_region_a_contacts", "WorkFromHomeA", "SchoolCloseA", "CommunityRestrictA"}

\* the layer an intervention edits
LayerOf(kind) ==
    CASE kind = "reduce_region_a_contacts" -> "base"
      [] kind = "WorkFromHomeA" -> "work"
      [] kind = "SchoolCloseA" -> "school"
      [] kind = "CommunityRestrictA" -> "community"

\* the day increments of the host: the next day, or one day skipped
DaySteps == {1, 2}

Reverse(q) == [i \in DOMAIN q |-> q[Len(q) + 1 - i]]

\* edge_in_a = in_a[p1] | in_a[p2], as the indices np.where gives
Touching(edges, pos, region) ==
    {i \in DOMAIN edges : pos[edges[i].p1] = region \/ pos[edges[i].p2] = region}

\* inds_all[:n_remove] after the shuffle: n_remove distinct indices in some order
ShuffledPrefixes(inds_all, n) ==
    UNION {{SetToSeq(S), Reverse(SetToSeq(S))} : S \in SubsetsOfSize(inds_all, n)}

Popped_WholeLayer(edges, inds) == edges

\* Layer.pop_inds(inds): the entries at inds, in that order
Popped(edges, inds) == [j \in DOMAIN inds |-> edges[inds[j]]]

\* Layer.pop_inds(inds): what stays in the layer, in its order
Remaining(edges, inds) == SelectSeq([i \in DOMAIN edges |-> <<i, edges[i]>>],
                                    LAMBDA x : x[1] \notin Range(inds))

\* Layer.append(contacts)
Appended(edges, stored) == edges \o stored

Restore_OnlyFirst(edges, stored) == Appended(edges, SubSeq(stored, 1, 1))

\* layer.append(self._stored_contacts)
Restore(edges, stored) == Appended(edges, stored)

IsStartDay_Late(day, c) == day >= c.start_day /\ ~c.applied

\* sim.t == self.start_day and not self._applied
IsStartDay(day, c) == day = c.start_day /\ ~c.applied

IsEndDay_Late(day, c) == c.end_day # None /\ day >= c.end_day /\ c.applied

\* self.end_day is not None and sim.t == self.end_day and self._applied
IsEndDay(day, c) == c.end_day # None /\ day = c.end_day /\ c.applied

\* the days the host has presented, with today's
Presented == [hist EXCEPT !.days = @ \cup {t}]

\* what one apply of the intervention installed does on day t, on layer lkey; all:
\* every edge touching the region goes (SchoolCloseA); restorable: the class has an
\* end_day
StructuralBody(lkey, all, restorable) ==
    /\ IF lkey \in DOMAIN contacts /\ IsStartDay(t, iv)
       THEN LET layer == contacts[lkey]
                inds_all == Touching(layer, position, _region_name_a)
                n == Cardinality(inds_all)
                k == IF all THEN n ELSE NRemove(n, iv.fraction)
            IN IF n = 0 \/ k <= 0
               THEN /\ n_total' = n
                    /\ n_remove' = IF n = 0 \/ all THEN None ELSE k
                    /\ hist' = Presented
                    /\ UNCHANGED <<contacts, iv>>
               ELSE \E to_remove \in ShuffledPrefixes(inds_all, k) :
                    /\ n_total' = n
                    /\ n_remove' = k
                    /\ contacts' = [contacts EXCEPT ![lkey] =
                            [j \in DOMAIN Remaining(layer, to_remove) |->
                                Remaining(layer, to_remove)[j][2]]]
                    /\ iv' = [iv EXCEPT !.stored = Popped(layer, to_remove),
                                        !.applied = TRUE]
                    /\ hist' = [Presented EXCEPT !.removed = @ + 1, !.before = layer]
       ELSE IF lkey \in DOMAIN contacts /\ restorable /\ IsEndDay(t, iv)
       THEN /\ contacts' = [contacts EXCEPT ![lkey] = Restore(@, iv.stored)]
            /\ iv' = [iv EXCEPT !.applied = FALSE]
            /\ hist' = [Presented EXCEPT !.restored = @ + 1]
            /\ UNCHANGED <<n_total, n_remove>>
       ELSE /\ hist' = Presented
            /\ UNCHANGED <<contacts, iv, n_total, n_remove>>

\* the apply of a structural intervention on the days the host presents
StructuralApply(lkey, all, restorable) ==
    /\ phase = "running" /\ t <= MaxDay
    /\ \E step \in DaySteps : t' = t + step
    /\ StructuralBody(lkey, all, restorable)
    /\ UNCHANGED <<phase, mode, country, age, position, iv2>>
    /\ UNCHANGED mobilityVars
    /\ UNCHANGED scaleVars
    /\ UNCHANGED hostVars
    /\ UNCHANGED buildVars
    /\ UNCHANGED twinVars

\* reduce_region_a_contacts.apply
reduce_region_a_contacts_apply ==
    /\ iv.kind = "reduce_region_a_contacts"
    /\ StructuralApply("base", FALSE, FALSE)

\* WorkFromHomeA.apply
WorkFromHomeA_apply ==
    /\ iv.kind = "WorkFromHomeA"
    /\ StructuralApply("work", FALSE, TRUE)

\* SchoolCloseA.apply
SchoolCloseA_apply ==
    /\ iv.kind = "SchoolCloseA"
    /\ StructuralApply("school", TRUE, TRUE)

\* CommunityRestrictA.apply
CommunityRestrictA_apply ==
    /\ iv.kind = "CommunityRestrictA"
    /\ StructuralApply("community", FALSE, TRUE)

\* the parameters an intervention of a kind is built with
StartDays == {0, 1, 2}
EndDays == {None, 1, 2, 3}
Interventions ==
    {[kind |-> k, start_day |-> sd, end_day |-> ed, fraction |-> fr,
      applied |-> FALSE, stored |-> <<>>] :
        k \in Kinds, sd \in StartDays, ed \in EndDays, fr \in Fractions}

\* where the agents are when the intervention runs: at home, or one of them abroad
Positions(ctry) ==
    {ctry} \cup {[ctry EXCEPT ![a] = Destination(ctry[a])] : a \in {1, NAgents}}

InitStruct ==
    /\ phase = "running"
    /\ mode \in {"single", "multi"}
    /\ country = Layout(NAgents \div 2)
    /\ age = [a \in Agents |-> IF a % 2 = 1 THEN 30 ELSE 20]
    /\ position \in Positions(country)
    /\ crosser = [a \in Agents |-> position[a] # country[a]]
    /\ crosser_purpose = NoPurpose
    /\ contacts = BaseContacts(mode)
    /\ quarantined = {} /\ isolated = {}
    /\ t \in {0, 1}
    /\ return_day = NoReturn
    /\ cfg = NoCfg
    /\ returning = {} /\ go_inds = {}
    /\ synth_args = [frac_travelers |-> <<1, 2>>]
    /\ iv \in Interventions /\ iv2 = NoIntervention
    /\ (iv.kind = "reduce_region_a_contacts" => iv.end_day = None)
    /\ (iv.kind = "SchoolCloseA" => iv.fraction = <<0, 1>>)
    /\ hist = NoHistory
    /\ n_total = 0 /\ n_remove = None
    /\ day_scale_pairs = <<>> /\ scale = None
    /\ order = <<>> /\ pc = 1 /\ mask = NoMask
    /\ layer_config = <<>> /\ layer_contacts = Unbound /\ layer_keys = <<>>
    /\ seeds = NoSeeds /\ np_random = 0 /\ twin = NoTwin

NextStruct ==
    \/ reduce_region_a_contacts_apply
    \/ WorkFromHomeA_apply
    \/ SchoolCloseA_apply
    \/ CommunityRestrictA_apply

SpecStruct == InitStruct /\ [][NextStruct]_vars

\* ------------------------------------------------------------------------
\* Two removal interventions of one class on the same layer
\* ------------------------------------------------------------------------
\* every outcome of one apply of intervention c on day `day` to its layer: the
\* intervention and the layer afterwards
StructuralOutcomes(c, layer, day) ==
    IF IsStartDay(day, c)
    THEN LET inds_all == Touching(layer, position, _region_name_a)
             n == Cardinality(inds_all)
             k == NRemove(n, c.fraction)
         IN IF n = 0 \/ k <= 0
            THEN {[iv |-> c, layer |-> layer]}
            ELSE {[iv |-> [c EXCEPT !.stored = Popped(layer, to_remove), !.applied = TRUE],
                   layer |-> [j \in DOMAIN Remaining(layer, to_remove) |->
                                 Remaining(layer, to_remove)[j][2]]] :
                      to_remove \in ShuffledPrefixes(inds_all, k)}
    ELSE IF IsEndDay(day, c)
    THEN {[iv |-> [c EXCEPT !.applied = FALSE], layer |-> Restore(layer, c.stored)]}
    ELSE {[iv |-> c, layer |-> layer]}

\* one day of the host: iv.apply(sim), then iv2.apply(sim)
PairApply ==
    /\ phase = "pair" /\ t <= MaxDay
    /\ LayerOf(iv.kind) \in DOMAIN contacts
    /\ LET lkey == LayerOf(iv.kind)
       IN \E o1 \in StructuralOutcomes(iv, contacts[lkey], t) :
          \E o2 \in StructuralOutcomes(iv2, o1.layer, t) :
             /\ iv' = o1.iv
             /\ iv2' = o2.iv
             /\ contacts' = [contacts EXCEPT ![lkey] = o2.layer]
             /\ hist' = [Presented EXCEPT
                    !.removed = @ + (IF o1.iv.applied /\ ~iv.applied THEN 1 ELSE 0)
                                  + (IF o2.iv.applied /\ ~iv2.applied THEN 1 ELSE 0),
                    !.restored = @ + (IF iv.applied /\ ~o1.iv.applied THEN 1 ELSE 0)
                                   + (IF iv2.applied /\ ~o2.iv.applied THEN 1 ELSE 0),
                    !.before = IF hist.removed = 0 THEN contacts[lkey] ELSE @]
    /\ t' = t + 1
    /\ UNCHANGED <<phase, mode, country, age, position, n_total, n_remove>>
    /\ UNCHANGED mobilityVars
    /\ UNCHANGED scaleVars
    /\ UNCHANGED hostVars
    /\ UNCHANGED buildVars
    /\ UNCHANGED twinVars

\* the windows of the two interventions, in the order of the host's list: the
\* later one starts while the earlier one is active
PairWindows ==
    {w \in [s1 : 1..2, e1 : 3..4, s2 : 1..2, e2 : 3..4] : w.s1 # w.s2}
PairFractions == {<<1, 2>>, <<2, 5>>, <<0, 1>>}

InitPair ==
    /\ phase = "pair"
    /\ mode = "multi"
    /\ country = Layout(NAgents \div 2)
    /\ age = [a \in Agents |-> IF a % 2 = 1 THEN 30 ELSE 20]
    /\ position \in Positions(country)
    /\ crosser = [a \in Agents |-> position[a] # country[a]]
    /\ crosser_purpose = NoPurpose
    /\ contacts = BaseContacts(mode)
    /\ quarantined = {} /\ isolated = {}
    /\ t = 0
    /\ return_day = NoReturn
    /\ cfg = NoCfg
    /\ returning = {} /\ go_inds = {}
    /\ synth_args = [frac_travelers |-> <<1, 2>>]
    /\ \E k \in {"WorkFromHomeA", "CommunityRestrictA"}, w \in PairWindows,
          f1 \in PairFractions, f2 \in PairFractions :
          /\ iv = [kind |-> k, start_day |-> w.s1, end_day |-> w.e1, fraction |-> f1,
                   applied |-> FALSE, stored |-> <<>>]
          /\ iv2 = [kind |-> k, start_day |-> w.s2, end_day |-> w.e2, fraction |-> f2,
                    applied |-> FALSE, stored |-> <<>>]
    /\ hist = NoHistory
    /\ n_total = 0 /\ n_remove = None
    /\ day_scale_pairs = <<>> /\ scale = None
    /\ order = <<>> /\ pc = 1 /\ mask = NoMask
    /\ layer_config = <<>> /\ layer_contacts = Unbound /\ layer_keys = <<>>
    /\ seeds = NoSeeds /\ np_random = 0 /\ twin = NoTwin

NextPair == PairApply

SpecPair == InitPair /\ [][NextPair]_vars

\* ------------------------------------------------------------------------
\* The removal count as a function of the number of touching edges
\* ------------------------------------------------------------------------
InitCount ==
    /\ phase = "count"
    /\ mode = "multi"
    /\ country = Layout(NAgents \div 2)
    /\ age = [a \in Agents |-> 30]
    /\ position = country
    /\ crosser = NoCrosser
    /\ crosser_purpose = NoPurpose
    /\ contacts = BaseContacts(mode)
    /\ quarantined = {} /\ isolated = {}
    /\ t = 0
    /\ return_day = NoReturn
    /\ cfg = NoCfg
    /\ returning = {} /\ go_inds = {}
    /\ synth_args = [frac_travelers |-> <<1, 2>>]
    /\ iv \in Interventions /\ iv2 = NoIntervention
    /\ iv.kind \in {"WorkFromHomeA", "CommunityRestrictA"}
    /\ iv.start_day = 0 /\ iv.end_day = None
    /\ hist = NoHistory
    /\ n_total \in 0..MaxEdges
    /\ n_remove = None
    /\ day_scale_pairs = <<>> /\ scale = None
    /\ order = <<>> /\ pc = 1 /\ mask = NoMask
    /\ layer_config = <<>> /\ layer_contacts = Unbound /\ layer_keys = <<>>
    /\ seeds = NoSeeds /\ np_random = 0 /\ twin = NoTwin

\* n_remove = int(n_total * (1 - self.fraction)) for a layer with n_total touching edges
CountRemoval ==
    /\ phase = "count" /\ n_remove = None
    /\ n_remove' = NRemove(n_total, iv.fraction)
    /\ UNCHANGED <<phase, mode, country, age, position, contacts, t, iv, iv2, hist, n_total>>
    /\ UNCHANGED mobilityVars
    /\ UNCHANGED scaleVars
    /\ UNCHANGED hostVars
    /\ UNCHANGED buildVars
    /\ UNCHANGED twinVars

NextCount == CountRemoval

SpecCount == InitCount /\ [][NextCount]_vars

\* ------------------------------------------------------------------------
\* ScaleRegionBaseBetaByPhase
\* ------------------------------------------------------------------------
\* the days and the scales (in tenths) a table is made of
TableDays == {0, 2, 3}
TableScales == {3, 5, BetaOne}

\* the tables: up to MaxTable pairs <<day_start, scale>>, in the order supplied
Tables == UNION {[1..n -> TableDays \X TableScales] : n \in 0..MaxTable}

\* insertion behind the entries whose day is not greater: a stable sort step
RECURSIVE InsertByDay(_, _)
InsertByDay(q, x) ==
    IF q = <<>> THEN <<x>>
    ELSE IF q[Len(q)][1] <= x[1] THEN Append(q, x)
    ELSE Append(InsertByDay(SubSeq(q, 1, Len(q) - 1), x), q[Len(q)])

sorted_Unsorted(q) == q

\* sorted(day_scale_pairs, key=lambda x: x[0])
RECURSIVE sorted(_)
sorted(q) == IF q = <<>> THEN <<>>
             ELSE InsertByDay(sorted(SubSeq(q, 1, Len(q) - 1)), q[Len(q)])

\* self.day_scale_pairs = sorted(day_scale_pairs or [(0, 1.0)], key=lambda x: x[0])
self_day_scale_pairs(pairs) ==
    sorted(IF pairs = <<>> THEN <<<<0, BetaOne>>>> ELSE pairs)

\* the loop of _scale_for_day, from scale s on
RECURSIVE ScaleLoop(_, _, _)
ScaleLoop(pairs, day, s) ==
    IF pairs = <<>> THEN s
    ELSE ScaleLoop(Tail(pairs), day, IF day >= Head(pairs)[1] THEN Head(pairs)[2] ELSE s)

\* ScaleRegionBaseBetaByPhase._scale_for_day
_scale_for_day(pairs, day) == ScaleLoop(pairs, day, BetaOne)

ScaleDomesticInA_IgnoreAbroad(edges, pos, ctry, sc) ==
    [n \in DOMAIN edges |->
        [edges[n] EXCEPT !.beta =
            IF pos[edges[n].p1] = _region_name_a \/ pos[edges[n].p2] = _region_name_a
            THEN sc ELSE edges[n].beta]]

\* beta[domestic_in_a] = scale
ScaleDomesticInA(edges, pos, ctry, sc) ==
    [n \in DOMAIN edges |->
        [edges[n] EXCEPT !.beta =
            IF /\ (pos[edges[n].p1] = _region_name_a \/ pos[edges[n].p2] = _region_name_a)
               /\ ~(edges[n].p1 \in IsAbroad(pos, ctry) \/ edges[n].p2 \in IsAbroad(pos, ctry))
            THEN sc ELSE edges[n].beta]]

\* ScaleRegionBaseBetaByPhase.apply
ScaleBody ==
    IF "base" \in DOMAIN contacts
    THEN /\ scale' = _scale_for_day(self_day_scale_pairs(day_scale_pairs), t)
         /\ contacts' = [contacts EXCEPT !["base"] =
                             ScaleDomesticInA(@, position, country, scale')]
    ELSE UNCHANGED <<scale, contacts>>

\* ScaleRegionBaseBetaByPhase.apply, as the only intervention installed
ScaleRegionBaseBetaByPhase_apply ==
    /\ phase = "scaling" /\ t <= MaxDay
    /\ t' = t + 1
    /\ ScaleBody
    /\ UNCHANGED <<phase, mode, country, age, position, day_scale_pairs>>
    /\ UNCHANGED mobilityVars
    /\ UNCHANGED structVars
    /\ UNCHANGED hostVars
    /\ UNCHANGED buildVars
    /\ UNCHANGED twinVars

InitScale ==
    /\ phase = "scaling"
    /\ mode \in {"single", "multi"}
    /\ country = Layout(NAgents \div 2)
    /\ age = [a \in Agents |-> 30]
    /\ position \in Positions(country)
    /\ crosser = [a \in Agents |-> position[a] # country[a]]
    /\ crosser_purpose = NoPurpose
    /\ contacts = BaseContacts(mode)
    /\ quarantined = {} /\ isolated = {}
    /\ t = 0
    /\ return_day = NoReturn
    /\ cfg = NoCfg
    /\ returning = {} /\ go_inds = {}
    /\ synth_args = [frac_travelers |-> <<1, 2>>]
    /\ iv = NoIntervention /\ iv2 = NoIntervention /\ hist = NoHistory
    /\ n_total = 0 /\ n_remove = None
    /\ day_scale_pairs \in Tables
    /\ scale = None
    /\ order = <<>> /\ pc = 1 /\ mask = NoMask
    /\ layer_config = <<>> /\ layer_contacts = Unbound /\ layer_keys = <<>>
    /\ seeds = NoSeeds /\ np_random = 0 /\ twin = NoTwin

NextScale == ScaleRegionBaseBetaByPhase_apply

SpecScale == InitScale /\ [][NextScale]_vars

\* ------------------------------------------------------------------------
\* The host's day: every installed intervention applied once, in list order
\* ------------------------------------------------------------------------
_region_key_Country == "country"

\* _region_key: the attribute an agent's current location is kept in
_region_key == "position"

\* getattr(people, self.region_key): the array the machine reads and writes as location
Located(key) == IF key = "country" THEN country ELSE position

\* steps 1 and 2 of apply as a function of the location array: every outcome of the
\* flags presented, of np.random.choice and of np.random.randint
TravelOutcomes(allow, loc) ==
    UNION {LET ret == Returning(crosser, return_day, t, h[1], h[2])
               pos1 == AfterReturn(loc, ret)
               rd1 == ClearReturn(return_day, ret)
               at_home == AtHome(crosser, rd1, h[1], h[2])
               n_go == IF allow THEN NGo(Cardinality(at_home), cfg.frac_cross_per_day) ELSE 0
           IN UNION {{[quarantined |-> h[1], isolated |-> h[2],
                       returning |-> ret, go_inds |-> go,
                       located |-> AfterDeparture(pos1, go),
                       return_day |-> SetReturn(rd1, go, dur, t)] :
                          dur \in [go -> Durations(cfg)]} :
                      go \in SubsetsOfSize(at_home, n_go)} :
           h \in Holds}

\* the outbound window of the machine installed
AllowOutbound == IF mode = "single" THEN allow_outbound_single(cfg, t)
                 ELSE allow_outbound(cfg, t)

\* step 3 (and 4) of the machine installed
MachineWeights(cts, abroad) ==
    IF mode = "single" THEN CrosserTravelWeights(cts, abroad)
    ELSE CrosserTravelMultilayerWeights(cts, abroad)

\* the host's loop over sim['interventions'], and the end of the day
Advance ==
    IF pc = Len(order) THEN pc' = 1 /\ t' = t + 1
    ELSE pc' = pc + 1 /\ t' = t

\* the intervention the host applies next
Applies(name) ==
    /\ phase = "host" /\ t <= MaxDay
    /\ pc \in DOMAIN order /\ order[pc] = name

\* CrosserTravel.apply / CrosserTravelMultilayer.apply under the host
Host_CrosserTravel ==
    /\ Applies("CrosserTravel")
    /\ \E o \in TravelOutcomes(AllowOutbound, Located(_region_key)) :
          /\ quarantined' = o.quarantined
          /\ isolated' = o.isolated
          /\ returning' = o.returning
          /\ go_inds' = o.go_inds
          /\ return_day' = o.return_day
          /\ position' = IF _region_key = "position" THEN o.located ELSE position
          /\ country' = IF _region_key = "country" THEN o.located ELSE country
    /\ contacts' = MachineWeights(contacts, IsAbroad(Located(_region_key)', country'))
    /\ Advance
    /\ UNCHANGED <<phase, mode, age, crosser, crosser_purpose, cfg, synth_args>>
    /\ UNCHANGED <<order, mask>>
    /\ UNCHANGED structVars
    /\ UNCHANGED scaleVars
    /\ UNCHANGED buildVars
    /\ UNCHANGED twinVars

\* ScaleRegionBaseBetaByPhase.apply under the host
Host_ScaleRegionBaseBetaByPhase ==
    /\ Applies("ScaleRegionBaseBetaByPhase")
    /\ ScaleBody
    /\ Advance
    /\ UNCHANGED <<phase, mode, country, age, position, day_scale_pairs>>
    /\ UNCHANGED mobilityVars
    /\ UNCHANGED <<order, mask>>
    /\ UNCHANGED structVars
    /\ UNCHANGED buildVars
    /\ UNCHANGED twinVars

MaskActive_NoEnd(day, m) == ~(day < m.start_day)

\* the two early returns of MaskWearingLayerSpecific.apply
MaskActive(day, m) ==
    /\ ~(day < m.start_day)
    /\ ~(m.end_day # None /\ day > m.end_day)

\* beta[domestic_in_a] = self.efficacy
MaskDomesticInA(edges, pos, ctry, eff) ==
    [n \in DOMAIN edges |->
        [edges[n] EXCEPT !.beta =
            IF /\ (pos[edges[n].p1] = _region_name_a \/ pos[edges[n].p2] = _region_name_a)
               /\ ~(edges[n].p1 \in IsAbroad(pos, ctry) \/ edges[n].p2 \in IsAbroad(pos, ctry))
            THEN eff ELSE edges[n].beta]]

\* MaskWearingLayerSpecific.apply under the host
Host_MaskWearingLayerSpecific ==
    /\ Applies("MaskWearingLayerSpecific")
    /\ IF MaskActive(t, mask)
       THEN contacts' = [lkey \in DOMAIN contacts |->
                IF lkey \in Range(mask.layers)
                THEN MaskDomesticInA(contacts[lkey], position, country, mask.efficacy)
                ELSE contacts[lkey]]
       ELSE UNCHANGED contacts
    /\ Advance
    /\ UNCHANGED <<phase, mode, country, age, position>>
    /\ UNCHANGED mobilityVars
    /\ UNCHANGED <<order, mask>>
    /\ UNCHANGED structVars
    /\ UNCHANGED scaleVars
    /\ UNCHANGED buildVars
    /\ UNCHANGED twinVars

\* the apply of the structural intervention installed, under the host
Host_Structural ==
    /\ iv.kind \in Kinds /\ Applies(iv.kind)
    /\ StructuralBody(LayerOf(iv.kind), iv.kind = "SchoolCloseA",
                      iv.kind # "reduce_region_a_contacts")
    /\ Advance
    /\ UNCHANGED <<phase, mode, country, age, position, iv2>>
    /\ UNCHANGED mobilityVars
    /\ UNCHANGED <<order, mask>>
    /\ UNCHANGED scaleVars
    /\ UNCHANGED buildVars
    /\ UNCHANGED twinVars

\* the interventions lists: the machine with a weight edit before or after it, and
\* with a structural intervention behind them
HostOrders ==
    {<<"CrosserTravel", "ScaleRegionBaseBetaByPhase">>,
     <<"ScaleRegionBaseBetaByPhase", "CrosserTravel">>,
     <<"CrosserTravel", "MaskWearingLayerSpecific">>,
     <<"MaskWearingLayerSpecific", "CrosserTravel">>,
     <<"CrosserTravel", "MaskWearingLayerSpecific", "WorkFromHomeA">>,
     <<"CrosserTravel", "ScaleRegionBaseBetaByPhase", "reduce_region_a_contacts">>}

Installed(name) == \E i \in DOMAIN order : order[i] = name

\* the tables, the masks and the structural interventions of a host run
HostTables == {<<<<0, 5>>>>, <<<<3, 3>>, <<1, 5>>>>}
Masks == {[layers |-> <<"work", "school">>, efficacy |-> 5, start_day |-> 0, end_day |-> None],
          [layers |-> <<"community", "work", "home">>, efficacy |-> 5,
           start_day |-> 1, end_day |-> 2]}
HostInterventions ==
    {c \in Interventions : /\ c.start_day = 1 /\ c.end_day \in {None, 3}
                           /\ c.fraction = <<1, 2>>}

InitHost ==
    /\ phase = "host"
    /\ t = 0
    /\ quarantined = {} /\ isolated = {}
    /\ return_day = NoReturn
    /\ returning = {} /\ go_inds = {}
    /\ n_total = 0 /\ n_remove = None
    /\ scale = None
    /\ layer_config = <<>> /\ layer_contacts = Unbound /\ layer_keys = <<>>
    /\ seeds = NoSeeds /\ np_random = 0 /\ twin = NoTwin
    /\ age = [a \in Agents |-> IF a % 2 = 1 THEN 30 ELSE 20]
    /\ synth_args = [frac_travelers |-> <<1, 2>>]
    /\ order \in HostOrders /\ pc = 1
    /\ SynthesizedPopulation(IF Installed("MaskWearingLayerSpecific") THEN "multi"
                             ELSE "single", 0)
    /\ cfg = MachineCfg(mode, <<1, 4>>, <<1, 2>>, <<0, None, None>>)
    /\ IF Installed("ScaleRegionBaseBetaByPhase")
       THEN day_scale_pairs \in HostTables ELSE day_scale_pairs = <<>>
    /\ IF Installed("MaskWearingLayerSpecific") THEN mask \in Masks ELSE mask = NoMask
    /\ IF \E k \in Kinds : Installed(k)
       THEN /\ iv \in HostInterventions
            /\ Installed(iv.kind)
            /\ iv.kind = "reduce_region_a_contacts" => iv.end_day = None
       ELSE iv = NoIntervention
    /\ iv2 = NoIntervention
    /\ hist = NoHistory

NextHost ==
    \/ Host_CrosserTravel
    \/ Host_ScaleRegionBaseBetaByPhase
    \/ Host_MaskWearingLayerSpecific
    \/ Host_Structural

SpecHost == InitHost /\ [][NextHost]_vars

\* ------------------------------------------------------------------------
\* create_custom_population: one contact layer per configured layer name
\* ------------------------------------------------------------------------
\* enums.NetWorkType: the names network_type is compared with
NetWorkType == {"scale_free", "microstructured", "random"}

\* config.get('age_range') is None
NoAgeRange == <<>>

\* indices = np.where((ages >= min_age) & (ages < max_age))[0]
Indices(ages, age_range) ==
    SetToSeq({a \in Agents : ages[a] >= age_range[1] /\ ages[a] < age_range[2]})

\* the contacts a generator returns for n agents, over local indices 1..n:
\* each new agent attached to an agent before it
make_scale_free_contacts(n) ==
    {[i \in 1..(n - 1) |-> [p1 |-> i + 1, p2 |-> IF star THEN 1 ELSE i, beta |-> BetaOne]] :
        star \in BOOLEAN}

\* clusters of two agents, every pair of a cluster connected
make_microstructured_contacts(n) ==
    {[i \in 1..(n \div 2) |-> [p1 |-> 2 * i - 1, p2 |-> 2 * i, beta |-> BetaOne]]}

\* one partner per agent, never the agent itself
make_random_contacts(n) ==
    IF n < 2 THEN {<<>>}
    ELSE {[i \in 1..n |-> [p1 |-> i, p2 |-> ((i - 1 + d) % n) + 1, beta |-> BetaOne]] :
             d \in 1..(n - 1)}

\* the generator the branch taken calls
Generator(network_type, n) ==
    IF network_type = "scale_free" THEN make_scale_free_contacts(n)
    ELSE IF network_type = "microstructured" THEN make_microstructured_contacts(n)
    ELSE make_random_contacts(n)

\* mapping=indices, and temp_contacts['p1'] = indices[temp_contacts['p1']]
Remap(edges, indices) ==
    [i \in DOMAIN edges |-> [edges[i] EXCEPT !.p1 = indices[@], !.p2 = indices[@]]]

\* the value of layer_contacts after the if / elif / elif of one loop iteration:
\* no branch assigns it when network_type is none of the three names
LayerContacts(config, ages, before) ==
    IF config.network_type \in NetWorkType
    THEN IF config.age_range # NoAgeRange
         THEN {[bound |-> TRUE, edges |-> Remap(g, Indices(ages, config.age_range))] :
                  g \in Generator(config.network_type,
                                  Len(Indices(ages, config.age_range)))}
         ELSE {[bound |-> TRUE, edges |-> g] : g \in Generator(config.network_type, NAgents)}
    ELSE {before}

\* contacts.add_layer(**{layer_name: layer})
AddLayer(cts, name, edges) ==
    [k \in DOMAIN cts \cup {name} |-> IF k = name THEN edges ELSE cts[k]]

\* one iteration of 'for layer_name, config in layer_config.items()'
BuildLayer ==
    /\ phase = "building"
    /\ Len(layer_keys) < Len(layer_config)
    /\ LET config == layer_config[Len(layer_keys) + 1]
       IN /\ layer_keys' = Append(layer_keys, config.name)
          /\ layer_contacts' \in LayerContacts(config, age, layer_contacts)
          /\ IF layer_contacts'.bound
             THEN /\ contacts' = AddLayer(contacts, config.name, layer_contacts'.edges)
                  /\ phase' = phase
             ELSE /\ phase' = "UnboundLocalError"
                  /\ contacts' = contacts
    /\ UNCHANGED <<mode, country, age, position, t, layer_config>>
    /\ UNCHANGED mobilityVars
    /\ UNCHANGED structVars
    /\ UNCHANGED scaleVars
    /\ UNCHANGED hostVars
    /\ UNCHANGED twinVars

\* return popdict, layer_keys
BuildReturn ==
    /\ phase = "building"
    /\ Len(layer_keys) = Len(layer_config)
    /\ phase' = "built"
    /\ UNCHANGED <<mode, country, age, position, contacts, t>>
    /\ UNCHANGED mobilityVars
    /\ UNCHANGED structVars
    /\ UNCHANGED scaleVars
    /\ UNCHANGED hostVars
    /\ UNCHANGED buildVars
    /\ UNCHANGED twinVars

\* the layer names, the topology names and the age ranges of a configuration; the
\* ages are drawn from [18, 65), so that (6, 18) selects nobody
LayerNames == <<"home", "work", "school">>
NetworkTypes == NetWorkType \cup {"small_world"}
AgeRanges == {NoAgeRange, <<18, 45>>, <<30, 65>>, <<6, 18>>}
Ages == {[a \in Agents |-> IF a % 2 = 1 THEN 20 ELSE 40],
         [a \in Agents |-> IF a = 1 THEN 20 ELSE 60],
         [a \in Agents |-> 50]}

\* countries = np.random.choice(['A','B'], pop_size): every agent of A, or the first
\* half of the agents, or the first agent only
Countries == {Layout(NAgents), Layout(NAgents \div 2), Layout(1)}

\* the configurations of one or two layers
LayerConfigs ==
    UNION {[1..n -> [name : Range(LayerNames), network_type : NetworkTypes,
                     age_range : AgeRanges]] : n \in 1..2}

InitBuild ==
    /\ phase = "building"
    /\ mode = "multi"
    /\ country \in Countries
    /\ position = country
    /\ age \in Ages
    /\ crosser = [a \in Agents |-> FALSE]
    /\ crosser_purpose = NoPurpose
    /\ contacts = <<>>
    /\ quarantined = {} /\ isolated = {}
    /\ t = 0
    /\ return_day = NoReturn
    /\ cfg = NoCfg
    /\ returning = {} /\ go_inds = {}
    /\ synth_args = [frac_travelers |-> <<1, 2>>]
    /\ iv = NoIntervention /\ iv2 = NoIntervention /\ hist = NoHistory
    /\ n_total = 0 /\ n_remove = None
    /\ day_scale_pairs = <<>>
    /\ scale = None
    /\ order = <<>> /\ pc = 1 /\ mask = NoMask
    /\ layer_config \in {c \in LayerConfigs : \A i \in DOMAIN c : c[i].name = LayerNames[i]}
    /\ layer_contacts = Unbound /\ layer_keys = <<>>
    /\ seeds = NoSeeds /\ np_random = 0 /\ twin = NoTwin

NextBuild ==
    \/ BuildLayer
    \/ BuildReturn

SpecBuild == InitBuild /\ [][NextBuild]_vars

\* ------------------------------------------------------------------------
\* Two runs of the same program on the same inputs: the random streams
\* ------------------------------------------------------------------------
\* a random stream as a small generator: its states, the state a seed gives and
\* the state after a draw
StreamPeriod == 5
StreamStates == 0..(StreamPeriod - 1)
RandomState(seed) == seed % StreamPeriod
StreamNext(s) == (2 * s + 1) % StreamPeriod

\* choice(inds, size=n, replace=False): n distinct entries of inds
Choice(S, n, s) ==
    LET q == SetToSeq(S) IN {q[((s + i) % Len(q)) + 1] : i \in 0..(n - 1)}

\* np.random.randint(lo, hi + 1)
RandInt(lo, hi, s) == lo + (s % (hi - lo + 1))

SynthRng_Global(cross_layer_seed, global) == global

\* rng = np.random.RandomState(cross_layer_seed)
SynthRng(cross_layer_seed, global) == RandomState(cross_layer_seed)

\* the stream np.random after the host has initialized the simulation
SimSeed(rand_seed) == RandomState(rand_seed)

\* add_cross_layer with its draws taken from the stream rng
SeededCrossLayer(rng) ==
    LET names == SelectedRegions("single", country)
        inds_A == IndsOf(country, names[1])
        inds_B == IndsOf(country, names[2])
        f == synth_args.frac_travelers
        travelers_A == Choice(inds_A, NTravelers(f, Cardinality(inds_A)), rng)
        travelers_B == Choice(inds_B, NTravelers(f, Cardinality(inds_B)), StreamNext(rng))
        pA == [c \in travelers_A |-> [j \in 1..MaxCrossPerPerson |-> Pick(inds_B, rng + c + j)]]
        pB == [c \in travelers_B |-> [j \in 1..MaxCrossPerPerson |-> Pick(inds_A, rng + c + j)]]
    IN [crosser |-> FlagCrossers(travelers_A, travelers_B),
        cross |-> cross_layer(travelers_A, travelers_B, pA, pB, DefaultCrossBeta)]

\* steps 1 and 2 of apply with the draws taken from the stream np.random
SeededTravel(cr, loc, rd, h, s, day) ==
    LET ret == Returning(cr, rd, day, h[1], h[2])
        pos1 == AfterReturn(loc, ret)
        rd1 == ClearReturn(rd, ret)
        at_home == AtHome(cr, rd1, h[1], h[2])
        n_go == IF allow_outbound_single(cfg, day)
                THEN NGo(Cardinality(at_home), cfg.frac_cross_per_day) ELSE 0
        go == Choice(at_home, n_go, s)
        dur == [a \in go |-> RandInt(cfg.duration_min, cfg.duration_max, StreamNext(s) + a)]
    IN [returning |-> ret, go_inds |-> go,
        located |-> AfterDeparture(pos1, go),
        return_day |-> SetReturn(rd1, go, dur, day),
        np_random |-> IF n_go > 0 THEN StreamNext(StreamNext(s)) ELSE s]

\* the stream after the draws the engine makes on a day, outside the machine
RECURSIVE EngineDraws(_, _)
EngineDraws(s, k) == IF k = 0 THEN s ELSE EngineDraws(StreamNext(s), k - 1)

\* add_cross_layer in both runs
Twin_add_cross_layer ==
    /\ phase = "twin_built"
    /\ phase' = "twin_synth"
    /\ LET one == SeededCrossLayer(SynthRng(seeds.cross_layer_seed, np_random))
           two == SeededCrossLayer(SynthRng(seeds.cross_layer_seed, twin.np_random))
       IN /\ crosser' = one.crosser
          /\ contacts' = contacts @@ ("cross" :> one.cross)
          /\ twin' = [twin EXCEPT !.crosser = two.crosser, !.cross = two.cross]
    /\ UNCHANGED <<mode, country, age, position, crosser_purpose, quarantined, isolated,
                   t, return_day, cfg, returning, go_inds, synth_args>>
    /\ UNCHANGED structVars
    /\ UNCHANGED scaleVars
    /\ UNCHANGED hostVars
    /\ UNCHANGED buildVars
    /\ UNCHANGED <<seeds, np_random>>

\* sim.initialize() in both runs: the host seeds np.random with rand_seed
Twin_initialize ==
    /\ phase = "twin_synth"
    /\ phase' = "twin_running"
    /\ np_random' = SimSeed(seeds.rand_seed)
    /\ twin' = [twin EXCEPT !.np_random = SimSeed(seeds.rand_seed)]
    /\ UNCHANGED <<mode, country, age, position, contacts, t, seeds>>
    /\ UNCHANGED mobilityVars
    /\ UNCHANGED structVars
    /\ UNCHANGED scaleVars
    /\ UNCHANGED hostVars
    /\ UNCHANGED buildVars

\* one day of both runs: the same flags presented, the same draws of the engine,
\* then CrosserTravel.apply
Twin_apply ==
    /\ phase = "twin_running" /\ t <= MaxDay
    /\ \E h \in Holds, k \in 0..1 :
          LET one == SeededTravel(crosser, position, return_day, h,
                                  EngineDraws(np_random, k), t)
              two == SeededTravel(twin.crosser, twin.position, twin.return_day, h,
                                  EngineDraws(twin.np_random, k), t)
          IN /\ quarantined' = h[1]
             /\ isolated' = h[2]
             /\ returning' = one.returning
             /\ go_inds' = one.go_inds
             /\ position' = one.located
             /\ return_day' = one.return_day
             /\ np_random' = one.np_random
             /\ twin' = [twin EXCEPT !.returning = two.returning, !.go_inds = two.go_inds,
                                     !.position = two.located,
                                     !.return_day = two.return_day,
                                     !.np_random = two.np_random]
    /\ contacts' = CrosserTravelWeights(contacts, IsAbroad(position', country))
    /\ t' = t + 1
    /\ UNCHANGED <<phase, mode, country, age, crosser, crosser_purpose, cfg, synth_args, seeds>>
    /\ UNCHANGED structVars
    /\ UNCHANGED scaleVars
    /\ UNCHANGED hostVars
    /\ UNCHANGED buildVars

\* the seeds of a run, and the states of np.random in the two runs before any seeding
RunSeeds == [cross_layer_seed : {0, 1}, rand_seed : {0, 1}]
Unseeded == {<<0, 0>>, <<0, 1>>, <<1, 2>>}

InitTwin ==
    /\ phase = "twin_built"
    /\ mode = "single"
    /\ country = Layout(NAgents \div 2)
    /\ position = country
    /\ age = [a \in Agents |-> 30]
    /\ crosser = NoCrosser
    /\ crosser_purpose = NoPurpose
    /\ contacts = BaseContacts(mode)
    /\ quarantined = {} /\ isolated = {}
    /\ t = 0
    /\ return_day = NoReturn
    /\ cfg = MachineCfg(mode, <<1, 2>>, <<1, 2>>, <<0, None, None>>)
    /\ returning = {} /\ go_inds = {}
    /\ synth_args = [frac_travelers |-> <<1, 2>>]
    /\ iv = NoIntervention /\ iv2 = NoIntervention /\ hist = NoHistory
    /\ n_total = 0 /\ n_remove = None
    /\ day_scale_pairs = <<>>
    /\ scale = None
    /\ order = <<>> /\ pc = 1 /\ mask = NoMask
    /\ layer_config = <<>> /\ layer_contacts = Unbound /\ layer_keys = <<>>
    /\ seeds \in RunSeeds
    /\ \E u \in Unseeded :
          /\ np_random = u[1]
          /\ twin = [on |-> TRUE, unseeded |-> u, np_random |-> u[2],
                     crosser |-> NoCrosser, cross |-> <<>>, position |-> country,
                     return_day |-> NoReturn, returning |-> {}, go_inds |-> {}]

NextTwin ==
    \/ Twin_add_cross_layer
    \/ Twin_initialize
    \/ Twin_apply

SpecTwin == InitTwin /\ [][NextTwin]_vars

\* ------------------------------------------------------------------------
\* The single-layer machine on a population with two crossers of one region
\* that share a base edge
\* ------------------------------------------------------------------------
\* the base layer of a population: a chain inside each region
RegionEdges(ctry) == SelectSeq(DomesticEdges, LAMBDA e : ctry[e.p1] = ctry[e.p2])

SingleWindows == {<<0, None, None>>, <<1, 3, None>>}

InitSingle ==
    /\ phase = "running"
    /\ mode = "single"
    /\ t = 0
    /\ quarantined = {} /\ isolated = {}
    /\ return_day = NoReturn
    /\ returning = {} /\ go_inds = {}
    /\ iv = NoIntervention /\ iv2 = NoIntervention /\ hist = NoHistory
    /\ n_total = 0 /\ n_remove = None
    /\ day_scale_pairs = <<>> /\ scale = None
    /\ order = <<>> /\ pc = 1 /\ mask = NoMask
    /\ layer_config = <<>> /\ layer_contacts = Unbound /\ layer_keys = <<>>
    /\ seeds = NoSeeds /\ np_random = 0 /\ twin = NoTwin
    /\ age = [a \in Agents |-> 30]
    /\ synth_args = [frac_travelers |-> <<2, 3>>]
    /\ country = Layout(NAgents - 1)
    /\ position = country
    /\ crosser_purpose = NoPurpose
    /\ LET inds_A == IndsOf(country, _region_name_a)
           inds_B == IndsOf(country, _region_name_b)
           f == synth_args.frac_travelers
           travelers_A == FirstN(inds_A, NTravelers(f, Cardinality(inds_A)))
           travelers_B == FirstN(inds_B, NTravelers(f, Cardinality(inds_B)))
       IN /\ crosser = FlagCrossers(travelers_A, travelers_B)
          /\ \E s \in Seeds :
                contacts = ("base" :> RegionEdges(country)) @@
                           ("cross" :> cross_layer(travelers_A, travelers_B,
                                SeededDraws(travelers_A, inds_B, MaxCrossPerPerson, s),
                                SeededDraws(travelers_B, inds_A, MaxCrossPerPerson, s),
                                DefaultCrossBeta))
    /\ \E dr \in DurationRanges, w \in SingleWindows :
          cfg = MachineCfg(mode, <<1, 4>>, dr, w)

NextSingle == CrosserTravelApply

SpecSingle == InitSingle /\ [][NextSingle]_vars

\* ------------------------------------------------------------------------
\* The synthesis called with an explicit n_cross_per_person (single layer) or
\* explicit purpose fractions (multilayer)
\* ------------------------------------------------------------------------
CrossFracs == {<<1, 2>>, <<1, 1>>}
CrossPurposeFracs == PurposeFracs \cup {<<0, 1, 1>>, <<0 - 1, 0, 0>>}

CrossArgs(m) ==
    IF m = "single"
    THEN [frac_travelers : CrossFracs, n_cross_per_person : 1..(MaxCrossPerPerson + 1)]
    ELSE [frac_travelers : {<<1, 2>>}, frac_purpose : CrossPurposeFracs]

InitCross ==
    /\ phase = "built"
    /\ mode \in {"single", "multi"}
    /\ country \in {Layout(NAgents \div 2), Layout(1)}
    /\ synth_args \in CrossArgs(mode)
    /\ age = [a \in Agents |-> IF a % 2 = 1 THEN 30 ELSE 20]
    /\ position = country
    /\ crosser = NoCrosser
    /\ crosser_purpose = NoPurpose
    /\ contacts = BaseContacts(mode)
    /\ quarantined = {} /\ isolated = {}
    /\ t = 0
    /\ return_day = NoReturn
    /\ cfg = NoCfg
    /\ returning = {} /\ go_inds = {}
    /\ iv = NoIntervention /\ iv2 = NoIntervention /\ hist = NoHistory
    /\ n_total = 0 /\ n_remove = None
    /\ day_scale_pairs = <<>> /\ scale = None
    /\ order = <<>> /\ pc = 1 /\ mask = NoMask
    /\ layer_config = <<>> /\ layer_contacts = Unbound /\ layer_keys = <<>>
    /\ seeds = NoSeeds /\ np_random = 0 /\ twin = NoTwin

NextCross == AddCrossLayer \/ AddCrossLayerMultilayer

SpecCross == InitCross /\ [][NextCross]_vars

\* ------------------------------------------------------------------------
\* Properties
\* ------------------------------------------------------------------------
\* the day of the step that ran last, and whether one has run
Today == t - 1
Stepped == phase = "running" /\ t > 0
Away(a) == position[a] # country[a]
Held(a) == a \in quarantined \cup isolated
IsStep == t' = t + 1

DomesticKeys == {"base"} \cup Range(DomesticLayersMulti)
CrossKeys == {"cross"} \cup Range(CrossLayersMulti)

\* the outbound window as the parameters describe it
WindowOpen(day) ==
    /\ day >= cfg.start_day
    /\ \/ cfg.end_day_outbound = None
       \/ day < cfg.end_day_outbound
       \/ (cfg.resume_day_outbound # None /\ day >= cfg.resume_day_outbound)

\* floor(n * frac + 1/2) for a fraction frac >= 0
RoundHalfUp(n, frac) ==
    CHOOSE r \in 0..(2 * n * frac[1] + 1) :
        /\ 2 * frac[2] * r <= 2 * n * frac[1] + frac[2]
        /\ 2 * n * frac[1] + frac[2] < 2 * frac[2] * (r + 1)

\* C1: after any sequence of daily mobility steps, under any quarantine/isolation
\* flags and any outbound window, every agent not flagged crosser has
\* position = country.
C1_NonCrosserStaysHome ==
    \A a \in Agents : ~crosser[a] => position[a] = country[a]

\* some crosser is away after two or more steps while a non-crosser is under a hold
C1_Witness ==
    /\ Stepped /\ t >= 2
    /\ \E a \in Agents : crosser[a] /\ Away(a)
    /\ \E a \in Agents : ~crosser[a] /\ Held(a)

\* C2: right after each daily apply, every edge of every region-internal layer has
\* weight 0 if an endpoint has position # country and weight 1 otherwise, also on
\* days when the outbound window is closed or nobody moved.
C2_DomesticWeights ==
    Stepped =>
        \A lkey \in DOMAIN contacts \cap DomesticKeys :
            \A n \in DOMAIN contacts[lkey] :
                LET e == contacts[lkey][n]
                IN e.beta = IF Away(e.p1) \/ Away(e.p2) THEN 0 ELSE BetaOne

\* a closed-window day on which nobody moved, with one edge frozen and one at 1
C2_Witness ==
    /\ Stepped /\ ~WindowOpen(Today)
    /\ returning = {} /\ go_inds = {}
    /\ \E lkey \in DOMAIN contacts \cap DomesticKeys :
          /\ \E n \in DOMAIN contacts[lkey] : contacts[lkey][n].beta = 0
          /\ \E n \in DOMAIN contacts[lkey] : contacts[lkey][n].beta = BetaOne

\* whether crosser c, as an endpoint of an edge of cross layer lkey, makes it active
PurposeMatch(lkey, c) ==
    /\ Away(c)
    /\ \/ lkey = "cross_community"
       \/ (lkey = "cross_work" /\ crosser_purpose[c] = "work")
       \/ (lkey = "cross_home" /\ crosser_purpose[c] = "visit")

\* the edges of layer lkey that agent a is an endpoint of and that carry weight
ActiveEdgesOf(lkey, a) ==
    {n \in DOMAIN contacts[lkey] :
        /\ a \in {contacts[lkey][n].p1, contacts[lkey][n].p2}
        /\ contacts[lkey][n].beta # 0}

\* C3: after each daily apply of CrosserTravelMultilayer, an edge of cross_work,
\* cross_community or cross_home has the layer's cross beta iff its crosser endpoint
\* is away and the layer is cross_community or matches the crosser's purpose, and
\* weight 0 otherwise; hence an away undocumented crosser has active edges only in
\* cross_community and a crosser at home has none.
C3_CrossActivation ==
    (Stepped /\ mode = "multi") =>
        /\ \A lkey \in DOMAIN contacts \cap Range(CrossLayersMulti) :
              \A n \in DOMAIN contacts[lkey] :
                 LET e == contacts[lkey][n]
                 IN /\ e.beta \in {0, cfg.cross_betas[lkey]}
                    /\ \A c \in {e.p1, e.p2} :
                          crosser[c] => (e.beta = cfg.cross_betas[lkey] <=> PurposeMatch(lkey, c))
        /\ \A c \in Agents :
              /\ (crosser[c] /\ ~Away(c)) =>
                    \A lkey \in DOMAIN contacts \cap Range(CrossLayersMulti) :
                        ActiveEdgesOf(lkey, c) = {}
              /\ (crosser[c] /\ Away(c) /\ crosser_purpose[c] = "undocumented") =>
                    \A lkey \in DOMAIN contacts \cap {"cross_work", "cross_home"} :
                        ActiveEdgesOf(lkey, c) = {}

\* the step condition of C4
C4_ReturnStep ==
    IsStep =>
        /\ returning' = {a \in Agents : /\ crosser[a] /\ Away(a)
                                        /\ return_day[a] = t
                                        /\ a \notin quarantined' \cup isolated'}
        /\ \A a \in returning' :
              /\ return_day[a] <= t
              /\ a \notin go_inds' => (position'[a] = country[a] /\ return_day'[a] = NaN)
        /\ \A a \in Agents \ (returning' \cup go_inds') : position'[a] = position[a]
        /\ \A a \in go_inds' : return_day'[a] > t

\* C4: the Return step of day t returns exactly the away crossers whose return-day
\* is t and who are not held (position := country, return-day cleared) and changes
\* no other position; hence an agent that departs on day d with stay L is returned
\* by the Return step of day d + L, which is therefore still to come, and never
\* earlier, and every returned agent has departure-day + duration <= current day.
C4_ReturnOnTime == [][C4_ReturnStep]_vars

\* C5: an away agent held on its return-day returns on the first day at or after
\* its return-day on which it is not held: after the step of a day, no agent that
\* was free of holds in that step is still away with a return-day that has passed.
\* (Stays of at least one day, so that the return-day can only have passed under a
\* hold.)
C5_DeferredReturn ==
    (Stepped /\ cfg.duration_min >= 1) =>
        \A a \in Agents :
            (crosser[a] /\ ~Held(a) /\ return_day[a] # NaN /\ return_day[a] <= Today)
                => ~Away(a)

\* the step condition of C6
C6_HeldStep ==
    IsStep =>
        \A a \in Agents :
            (/\ Away(a) /\ return_day[a] # NaN /\ return_day[a] <= t
             /\ a \in quarantined' \cup isolated')
                => (position'[a] = position[a] /\ return_day'[a] = return_day[a])

\* C6: an away agent that is quarantined or isolated when the step runs on its
\* return-day, or on a later day while the hold lasts, keeps its position and its
\* return-day.
C6_HeldStaysAway == [][C6_HeldStep]_vars

\* an agent still held and away on the day after its return-day
C6_Witness ==
    /\ Stepped /\ cfg.duration_min >= 1
    /\ \E a \in Agents : Away(a) /\ Held(a) /\ return_day[a] = Today - 1

\* the crossers that are at home and free of holds when the Departure step runs
Eligible ==
    {a \in Agents : /\ crosser[a]
                    /\ (return_day[a] = NaN \/ a \in returning')
                    /\ a \notin quarantined' \cup isolated'}

\* the step condition of C7
C7_DepartureStep ==
    IsStep =>
        /\ go_inds' \subseteq Eligible
        /\ WindowOpen(t) =>
              Cardinality(go_inds') =
                  Min(Cardinality(Eligible),
                      RoundHalfUp(Cardinality(Eligible), cfg.frac_cross_per_day))
        /\ \A a \in go_inds' :
              /\ crosser[a]
              /\ a \notin quarantined' \cup isolated'
              /\ (Away(a) => a \in returning')

C8_DepartureEffectStep ==
    IsStep =>
        /\ \A a \in go_inds' :
              /\ country[a] = _region_name_a => position'[a] = _region_name_b
              /\ country[a] = _region_name_b => position'[a] = _region_name_a
              /\ position'[a] # country[a]
              /\ \E L \in cfg.duration_min..cfg.duration_max : return_day'[a] = t + L
        /\ \A a \in Agents \ go_inds' :
              IF a \in returning'
              THEN position'[a] = country[a] /\ return_day'[a] = NaN
              ELSE position'[a] = position[a] /\ return_day'[a] = return_day[a]

\* C8: an agent departing on day t gets the opposite region as position, so that
\* position # country, and a return-day t + L with duration_min <= L <= duration_max;
\* the Departure step leaves the position and return-day of the others alone.
C8_DepartureEffect == [][C8_DepartureEffectStep]_vars

\* an agent of A and an agent of B left together, one for the shortest and one for
\* the longest stay of a range with two lengths
C8_Witness ==
    /\ Stepped /\ cfg.duration_min < cfg.duration_max
    /\ \E a, b \in go_inds :
          /\ country[a] = _region_name_a /\ country[b] = _region_name_b
          /\ return_day[a] = Today + cfg.duration_min
          /\ return_day[b] = Today + cfg.duration_max

\* the step condition of C9
C9_WindowStep ==
    IsStep =>
        /\ t < cfg.start_day => go_inds' = {}
        /\ (/\ cfg.end_day_outbound # None /\ t >= cfg.end_day_outbound
            /\ ~(cfg.resume_day_outbound # None /\ t >= cfg.resume_day_outbound))
                => go_inds' = {}
        /\ (/\ cfg.resume_day_outbound # None /\ t >= cfg.resume_day_outbound
            /\ t >= cfg.start_day
            /\ RoundHalfUp(Cardinality(Eligible), cfg.frac_cross_per_day) > 0
            /\ Eligible # {})
                => go_inds' # {}
        /\ ~WindowOpen(t) =>
              /\ \A a \in Agents :
                    (/\ crosser[a] /\ Away(a) /\ return_day[a] = t
                     /\ a \notin quarantined' \cup isolated')
                        => (position'[a] = country[a] /\ return_day'[a] = NaN)
              /\ \A lkey \in DOMAIN contacts' \cap DomesticKeys :
                    \A n \in DOMAIN contacts'[lkey] :
                        LET e == contacts'[lkey][n]
                        IN e.beta = IF position'[e.p1] # country[e.p1]
                                       \/ position'[e.p2] # country[e.p2]
                                    THEN 0 ELSE BetaOne

\* C9: nobody departs before start_day, nor from end_day_outbound on unless a
\* resume day is configured and reached; from the resume day on departures happen
\* again; while the window is closed the Return step and the weight recomputation
\* still run, so agents away return on their return-day.
C9_OutboundWindow == [][C9_WindowStep]_vars

\* departures on a day at or after the resume day of a window that had been closed
C9_Witness ==
    /\ Stepped
    /\ cfg.end_day_outbound # None /\ cfg.resume_day_outbound # None
    /\ cfg.end_day_outbound < cfg.resume_day_outbound
    /\ Today >= cfg.resume_day_outbound
    /\ go_inds # {}

\* C10: every edge of every synthesized cross layer has exactly one endpoint flagged
\* crosser, and its two endpoints have different countries.
C10_CrossEdges ==
    \A lkey \in DOMAIN contacts \cap CrossKeys :
        \A n \in DOMAIN contacts[lkey] :
            LET e == contacts[lkey][n]
            IN /\ crosser[e.p1] # crosser[e.p2]
               /\ country[e.p1] # country[e.p2]

\* ------------------------------------------------------------------------
\* Properties of the cross-layer synthesis
\* ------------------------------------------------------------------------
\* the regions that hold at least one agent
Populated == {r \in Range(RegionOrder) : \E a \in Agents : country[a] = r}
RegionSize(r) == Cardinality({a \in Agents : country[a] = r})
CrossersOf(r) == {a \in Agents : crosser[a] /\ country[a] = r}

\* the synthesis ran on two selected regions that both hold agents
Synthesized ==
    /\ phase = "synth"
    /\ Cardinality(Populated) >= 2
    /\ \A i \in 1..2 : SelectedRegions(mode, country)[i] \in Populated

\* the synthesis was asked for fewer than two populated regions
FewerThanTwo ==
    \/ Cardinality(Populated) < 2
    \/ \E i \in 1..2 : SelectedRegions(mode, country)[i] \notin Populated

IsSynthStep == phase = "built" /\ phase' # "built"

\* C11: after multilayer synthesis every crosser endpoint of an edge of cross_work
\* has purpose work, every crosser endpoint of an edge of cross_home has purpose
\* visit, and every crosser, whatever its purpose, originates edges in
\* cross_community.
C11_PurposeRouting ==
    (Synthesized /\ mode = "multi") =>
        /\ \A lkey \in DOMAIN contacts \cap {"cross_work", "cross_home"} :
              \A n \in DOMAIN contacts[lkey] :
                  \A c \in {contacts[lkey][n].p1, contacts[lkey][n].p2} :
                      crosser[c] =>
                          crosser_purpose[c] = IF lkey = "cross_work" THEN "work" ELSE "visit"
        /\ \A c \in Agents :
              crosser[c] =>
                  /\ "cross_community" \in DOMAIN contacts
                  /\ \E n \in DOMAIN contacts["cross_community"] :
                        contacts["cross_community"][n].p1 = c

\* C12: for a traveler fraction 0 < f <= 1 and two non-empty selected regions, the
\* synthesis (single and multilayer) flags in each of the two regions a set of
\* agents of that region whose size differs from f * (region size) by less than 1
\* (667 and 333 agents with f = 0.03 give a total within 1 of 30); the two crosser
\* sets are disjoint and no agent outside the two regions is flagged.
C12_TravelerCount ==
    /\ NTravelers(<<3, 100>>, 667) + NTravelers(<<3, 100>>, 333) \in 29..31
    /\ (Synthesized /\ synth_args.frac_travelers[1] > 0) =>
          LET f == synth_args.frac_travelers
              names == SelectedRegions(mode, country)
          IN /\ \A i \in 1..2 :
                   LET d == f[2] * Cardinality(CrossersOf(names[i]))
                            - f[1] * RegionSize(names[i])
                   IN -f[2] < d /\ d < f[2]
             /\ CrossersOf(names[1]) \cap CrossersOf(names[2]) = {}
             /\ \A a \in Agents : crosser[a] => country[a] \in {names[1], names[2]}

\* one of the two agents of a selected region flagged under f = 2/3 while a third
\* region holds an agent
C12_Witness ==
    /\ Synthesized /\ synth_args.frac_travelers = <<2, 3>>
    /\ \E r \in Populated : RegionSize(r) = 2 /\ Cardinality(CrossersOf(r)) = 1
    /\ \E a \in Agents : country[a] \notin
            {SelectedRegions(mode, country)[1], SelectedRegions(mode, country)[2]}

\* the step condition of C13
C13_NoOpStep ==
    (IsSynthStep /\ FewerThanTwo) =>
        /\ contacts' = contacts
        /\ DOMAIN contacts' = DOMAIN contacts
        /\ \A a \in Agents : ~crosser'[a]

\* C13: when the population has fewer than two distinct regions, or one of the two
\* selected regions holds no agent, the synthesis (single and multilayer) adds no
\* layer, leaves the layer keys and every existing layer unchanged and flags no
\* agent as crosser.
C13_NoOp == [][C13_NoOpStep]_vars

\* a multilayer synthesis ended on a population with agents in A and C but none in B
C13_Witness ==
    /\ phase = "synth" /\ mode = "multi"
    /\ Populated = {RegionOrder[1], RegionOrder[3]}
    /\ DOMAIN contacts = Range(DomesticLayersMulti)

\* the step condition of C14 as stated
C14_FatalStep == (IsSynthStep /\ FewerThanTwo) => phase' = "error"

\* C14: requesting a cross layer on a population with fewer than two populated
\* regions fails at setup with a fatal ConfigurationError.
C14_ConfigurationError == [][C14_FatalStep]_vars

\* the step condition of C14 as amended
C14_ReturnsStep ==
    (IsSynthStep /\ FewerThanTwo) => (phase' = "synth" /\ contacts' = contacts)

\* C14 (amended): requesting a cross layer on a population with fewer than two
\* populated regions is not an error: the synthesis returns normally and hands
\* back the population without a cross layer.
C14_ReturnsNormally == [][C14_ReturnsStep]_vars

\* a single-layer synthesis ended on a population whose agents all live in one region
C14_Witness ==
    /\ phase = "synth" /\ mode = "single"
    /\ Cardinality(Populated) = 1
    /\ DOMAIN contacts = {"base"}

\* C15: with traveler fraction 0 on a two-region population the synthesis is a
\* no-op: no agent is flagged crosser and no cross-region edge is created.
C15_ZeroFraction ==
    (Synthesized /\ synth_args.frac_travelers[1] = 0) =>
        /\ \A a \in Agents : ~crosser[a]
        /\ DOMAIN contacts \cap CrossKeys = {}

\* ------------------------------------------------------------------------
\* Properties of the structural interventions
\* ------------------------------------------------------------------------
\* floor(n * (1 - fraction)) for a retained share given as a fraction
FloorRemoved(n, fr) == (n * (fr[2] - fr[1])) \div fr[2]

\* how often the pair (a, b) occurs in a layer
PairCount(edges, a, b) ==
    Cardinality({i \in DOMAIN edges : edges[i].p1 = a /\ edges[i].p2 = b})
SamePairs(e1, e2) ==
    \A a, b \in Agents : PairCount(e1, a, b) = PairCount(e2, a, b)

\* a daily apply of the structural intervention, and its layer
IsStructStep == t' > t /\ iv.kind \in Kinds
TheLayer == LayerOf(iv.kind)
HasLayer == TheLayer \in DOMAIN contacts

\* C16: at start_day a partial edge removal with retained share fraction removes
\* exactly floor(n * (1 - fraction)) of the n edges of its layer that touch the
\* region; fraction = 0 removes all n and fraction = 1 removes none.
C16_RemovalCount ==
    (phase = "count" /\ n_remove # None) =>
        /\ n_remove = FloorRemoved(n_total, iv.fraction)
        /\ iv.fraction = <<0, 1>> => n_remove = n_total
        /\ iv.fraction = <<1, 1>> => n_remove = 0

\* the step condition of C17
C17_RestoreStep ==
    (/\ IsStructStep /\ HasLayer
     /\ iv.end_day # None /\ t = iv.end_day /\ hist.removed = 1 /\ hist.restored = 0
     /\ iv.applied)
        => /\ contacts'[TheLayer] = contacts[TheLayer] \o iv.stored
           /\ Len(contacts'[TheLayer]) = Len(hist.before)
           /\ SamePairs(contacts'[TheLayer], hist.before)
           /\ hist'.restored = 1

\* C17: if end_day is configured and the removal fired at start_day, then at
\* end_day exactly the stored edges are reinserted, each exactly once: the layer's
\* multiset of (agentA, agentB) pairs right after the restore equals the multiset
\* right before the removal.
C17_RestoreExact == [][C17_RestoreStep]_vars

\* two or more edges were removed from the work layer and have been reinserted
C17_Witness ==
    /\ iv.kind = "WorkFromHomeA" /\ hist.restored = 1
    /\ Len(iv.stored) >= 2
    /\ Len(contacts["work"]) = Len(hist.before)

\* the step condition of C18
C18_LifecycleStep ==
    IsStructStep =>
        /\ hist'.removed <= 1 /\ hist'.restored <= 1 /\ hist'.restored <= hist'.removed
        /\ contacts' # contacts =>
              \/ /\ hist.removed = 0 /\ ~iv.applied /\ t = iv.start_day
                 /\ hist'.removed = 1 /\ hist'.restored = 0 /\ iv'.applied
              \/ /\ hist.removed = 1 /\ hist.restored = 0 /\ iv.applied
                 /\ iv.end_day # None /\ t = iv.end_day
                 /\ hist'.removed = 1 /\ hist'.restored = 1 /\ ~iv'.applied
        /\ \A lkey \in DOMAIN contacts : lkey # TheLayer => contacts'[lkey] = contacts[lkey]
        /\ DOMAIN contacts' = DOMAIN contacts
        /\ (iv.applied /\ iv.end_day = None) => (contacts' = contacts /\ iv' = iv)
        /\ hist.restored = 1 => (contacts' = contacts /\ iv' = iv)

\* C18: a structural intervention goes pending -> applied (no end_day) or
\* pending -> active -> restored (end_day set) and is then terminal: over days that
\* strictly increase it removes edges at most once, restores at most once, never
\* restores before it has removed, and makes no structural change on any other day
\* or in any other state.
C18_Lifecycle == [][C18_LifecycleStep]_vars

\* a restored intervention has seen two more days
C18_Witness ==
    /\ hist.removed = 1 /\ hist.restored = 1
    /\ Cardinality({d \in hist.days : d > iv.end_day}) >= 2

\* the step condition of C19
C19_NoRetryStep ==
    IsStructStep =>
        /\ (t > iv.start_day /\ iv.start_day \notin hist.days)
              => (contacts' = contacts /\ iv' = iv /\ hist'.removed = 0)
        /\ (/\ iv.applied /\ iv.end_day # None
            /\ t > iv.end_day /\ iv.end_day \notin hist.days)
              => (contacts' = contacts /\ iv' = iv /\ hist'.restored = 0)

\* C19: if the host never presents start_day, the removal fires on no later day
\* and the restore at end_day does nothing; if end_day is skipped after a removal
\* has fired, the removed edges are never reinserted. There is no retry.
C19_NoRetry == [][C19_NoRetryStep]_vars

\* a removal fired, the host skipped end_day and has presented a later day
C19_Witness ==
    /\ hist.removed = 1 /\ hist.restored = 0 /\ iv.applied
    /\ iv.end_day # None /\ iv.end_day \notin hist.days
    /\ \E d \in hist.days : d > iv.end_day /\ d > iv.start_day

\* ------------------------------------------------------------------------
\* Properties of ScaleRegionBaseBetaByPhase
\* ------------------------------------------------------------------------
\* a table proper: one scale per day
IsTable(pairs) == \A i, j \in DOMAIN pairs : pairs[i][1] = pairs[j][1] => i = j

\* the entries of a table in every order
Orderings(pairs) ==
    {[i \in DOMAIN pairs |-> pairs[p[i]]] :
        p \in {f \in [DOMAIN pairs -> DOMAIN pairs] : \A i, j \in DOMAIN pairs : f[i] = f[j] => i = j}}

\* the scale of the entry with the greatest day <= day, 1.0 when there is none
LatestScale(pairs, day) ==
    IF \E i \in DOMAIN pairs : pairs[i][1] <= day
    THEN LET i == CHOOSE i \in DOMAIN pairs :
                    /\ pairs[i][1] <= day
                    /\ \A j \in DOMAIN pairs : pairs[j][1] <= day => pairs[j][1] <= pairs[i][1]
         IN pairs[i][2]
    ELSE BetaOne

\* C20: for any day -> scale table (one scale per day) and any day t, the active
\* scale is the scale of the table entry with the greatest day <= t, whatever the
\* order in which the entries were supplied, and 1.0 when no entry has day <= t.
C20_ScaleForDay ==
    (phase = "scaling" /\ scale # None /\ IsTable(day_scale_pairs)) =>
        /\ scale = LatestScale(day_scale_pairs, Today)
        /\ \A q \in Orderings(day_scale_pairs) :
              _scale_for_day(self_day_scale_pairs(q), Today) = scale
        /\ (\A i \in DOMAIN day_scale_pairs : day_scale_pairs[i][1] > Today) => scale = BetaOne

\* a table of three entries supplied by descending day, on a day between the
\* second and the last day of the table
C20_Witness ==
    /\ phase = "scaling" /\ scale # None /\ IsTable(day_scale_pairs)
    /\ Len(day_scale_pairs) = 3
    /\ day_scale_pairs[1][1] > day_scale_pairs[2][1]
    /\ day_scale_pairs[2][1] > day_scale_pairs[3][1]
    /\ day_scale_pairs[1][1] > Today /\ Today >= day_scale_pairs[2][1]
    /\ scale = day_scale_pairs[2][2] /\ scale # day_scale_pairs[3][2]

\* ------------------------------------------------------------------------
\* Properties of the weight edits
\* ------------------------------------------------------------------------
\* an edge with no endpoint away and at least one endpoint located in the region
DomesticInRegion(e) ==
    /\ ~Away(e.p1) /\ ~Away(e.p2)
    /\ (position[e.p1] = _region_name_a \/ position[e.p2] = _region_name_a)

\* a daily apply of ScaleRegionBaseBetaByPhase on a population with a base layer
IsScaleStep == phase = "scaling" /\ t' = t + 1 /\ "base" \in DOMAIN contacts

\* the step condition of C21 as stated
C21_MultiplyStep ==
    IsScaleStep =>
        \A n \in DOMAIN contacts["base"] :
            LET e == contacts["base"][n]
                after == contacts'["base"][n].beta
            IN IF DomesticInRegion(e)
               THEN after * BetaOne = e.beta * scale'
               ELSE after = e.beta

C21_AssignStep ==
    IsScaleStep =>
        /\ IsTable(day_scale_pairs) => scale' = LatestScale(day_scale_pairs, t)
        /\ \A n \in DOMAIN contacts["base"] :
              LET e == contacts["base"][n]
                  after == contacts'["base"][n].beta
              IN IF DomesticInRegion(e)
                 THEN /\ after = scale'
                      /\ e.beta = BetaOne => after * BetaOne = e.beta * scale'
                 ELSE after = e.beta

IsHostStep == phase = "host" /\ <<pc, t>>' # <<pc, t>>
HostStepOf(name) == IsHostStep /\ order[pc] = name

\* every intervention of the list has run for the day that ended last
EndOfDay == phase = "host" /\ pc = 1 /\ t > 0

Place(name) == CHOOSE i \in DOMAIN order : order[i] = name

\* the weight edit installed: its place, its layers, its value and its window
WeightEdits == {"ScaleRegionBaseBetaByPhase", "MaskWearingLayerSpecific"}
HasEdit == \E name \in WeightEdits : Installed(name)
EditPlace == Place(CHOOSE name \in WeightEdits : Installed(name))
EditLayers == IF Installed("ScaleRegionBaseBetaByPhase") THEN {"base"} ELSE Range(mask.layers)
InWindow(day) == mask.start_day <= day /\ (mask.end_day = None \/ day <= mask.end_day)
EditActive(day) == Installed("ScaleRegionBaseBetaByPhase") \/ InWindow(day)
EditValue(day) == IF Installed("ScaleRegionBaseBetaByPhase")
                  THEN LatestScale(day_scale_pairs, day) ELSE mask.efficacy

\* C22: within a day the order of the mobility machine and a weight edit decides
\* the weights the engine reads: with the machine first and the edit second, every
\* domestic in-region edge of the edit's layers ends the day at the edited value on
\* every day the edit is active; with the edit first, the domestic resync
\* overwrites it and the edge ends the day at the baseline 1.
C22_OrderDecides ==
    (EndOfDay /\ Installed("CrosserTravel") /\ HasEdit) =>
        \A lkey \in EditLayers \cap DOMAIN contacts :
            \A n \in DOMAIN contacts[lkey] :
                LET e == contacts[lkey][n]
                IN DomesticInRegion(e) =>
                      IF Place("CrosserTravel") < EditPlace
                      THEN EditActive(Today) => e.beta = EditValue(Today)
                      ELSE e.beta = BetaOne

\* the step condition of C23
C23_WindowStep ==
    HostStepOf("MaskWearingLayerSpecific") =>
        /\ DOMAIN contacts' = DOMAIN contacts
        /\ IF InWindow(t)
           THEN \A lkey \in DOMAIN contacts :
                    /\ Len(contacts'[lkey]) = Len(contacts[lkey])
                    /\ \A n \in DOMAIN contacts[lkey] :
                          contacts'[lkey][n].beta =
                              IF lkey \in Range(mask.layers) /\ DomesticInRegion(contacts[lkey][n])
                              THEN mask.efficacy ELSE contacts[lkey][n].beta
           ELSE contacts' = contacts

\* C23: MaskWearingLayerSpecific changes weights only on days start_day <= t <=
\* end_day (no upper bound when end_day is None): on such a day, after it runs,
\* every edge of its named layers with no away endpoint and at least one endpoint
\* located in the region has the configured value; on every day outside the window
\* its apply leaves every weight of every layer unchanged, and it never changes
\* edges of layers it does not name.
C23_MaskWindow == [][C23_WindowStep]_vars

\* the mask has run after the machine on a day past its end_day: an edge of a named
\* layer is at the baseline 1
C23_Witness ==
    /\ EndOfDay
    /\ order = <<"CrosserTravel", "MaskWearingLayerSpecific">>
    /\ mask.end_day # None /\ Today > mask.end_day
    /\ \E lkey \in Range(mask.layers) : \E n \in DOMAIN contacts[lkey] :
          DomesticInRegion(contacts[lkey][n]) /\ contacts[lkey][n].beta = BetaOne

\* the weights an edit or a resync can have left on a layer
StartingWeights(edges) ==
    {[n \in DOMAIN edges |-> [edges[n] EXCEPT !.beta = w[n]]] :
        w \in [DOMAIN edges -> {0, 5, BetaOne}]}

\* C24: the domestic weight resync is idempotent: applied twice in a row on the
\* same day, with no change of position or membership in between, it yields
\* exactly the weight arrays of the first application, for any starting weights.
C24_ResyncIdempotent ==
    phase = "host" =>
        \A lkey \in DOMAIN contacts \cap DomesticKeys :
            \A edges \in {contacts[lkey]} \cup StartingWeights(contacts[lkey]) :
                LET abroad == IsAbroad(position, country)
                    once == DomesticResync(edges, abroad)
                IN DomesticResync(once, abroad) = once

\* the machine is the next to run, behind an edit that left a weight that is
\* neither 0 nor 1, with an agent away
C24_Witness ==
    /\ phase = "host" /\ pc = 2 /\ order[2] = "CrosserTravel"
    /\ \E a \in Agents : Away(a)
    /\ \E lkey \in DOMAIN contacts \cap DomesticKeys :
          /\ \E n \in DOMAIN contacts[lkey] : contacts[lkey][n].beta \notin {0, BetaOne}
          /\ DomesticResync(contacts[lkey], IsAbroad(position, country)) # contacts[lkey]

\* the endpoint arrays of every layer
Endpoints(cts) ==
    [lkey \in DOMAIN cts |-> [n \in DOMAIN cts[lkey] |-> <<cts[lkey][n].p1, cts[lkey][n].p2>>]]

\* the step condition of C26
C26_MembershipStep ==
    IsHostStep =>
        /\ order[pc] \in {"CrosserTravel"} \cup WeightEdits
              => Endpoints(contacts') = Endpoints(contacts)
        /\ Endpoints(contacts') # Endpoints(contacts) =>
              /\ order[pc] \in Kinds
              /\ \/ t = iv.start_day /\ ~iv.applied
                 \/ iv.end_day # None /\ t = iv.end_day /\ iv.applied

\* C26: weight mutation never changes membership: the apply of the mobility
\* machine, of ScaleRegionBaseBetaByPhase and of MaskWearingLayerSpecific never
\* adds, removes or reorders an edge, so the endpoint arrays of every layer are
\* unchanged by them; membership changes only at the removal and restore triggers
\* of structural interventions.
C26_Membership == [][C26_MembershipStep]_vars

\* work edges were removed and put back while the machine and the mask ran daily
C26_Witness ==
    /\ phase = "host" /\ Installed("MaskWearingLayerSpecific")
    /\ iv.kind = "WorkFromHomeA" /\ hist.removed = 1 /\ hist.restored = 1
    /\ \E n \in DOMAIN contacts["work"] : contacts["work"][n].beta = mask.efficacy
    /\ \E lkey \in DOMAIN contacts \cap Range(CrossLayersMulti) :
          \E n \in DOMAIN contacts[lkey] : contacts[lkey][n].beta = 0

\* the step condition of C27
C27_AttributeStep ==
    IsHostStep =>
        /\ country' = country
        /\ crosser' = crosser
        /\ crosser_purpose' = crosser_purpose
        /\ age' = age
        /\ position' # position => order[pc] = "CrosserTravel"

\* C27: no daily process changes an agent's country, crosser flag or travel
\* purpose: after any sequence of day-steps of the mobility machine and of the
\* layer-editing interventions these attributes have their values of population
\* synthesis; position is the only agent attribute the mobility machine writes.
C27_Attributes == [][C27_AttributeStep]_vars

\* an agent of region B is away on the fourth day or later of a run with a
\* structural intervention that has fired
C27_Witness ==
    /\ phase = "host" /\ t >= 3 /\ hist.removed = 1
    /\ \E a \in Agents : Away(a) /\ country[a] = _region_name_b /\ crosser[a]

\* ------------------------------------------------------------------------
\* Properties of the population builder
\* ------------------------------------------------------------------------
\* the configuration a layer name was given, and the layers the loop has been through
ConfigOf(name) ==
    layer_config[CHOOSE i \in DOMAIN layer_config : layer_config[i].name = name]
Processed == {layer_config[i] : i \in 1..Len(layer_keys)}
Recognized(config) == config.network_type \in NetWorkType
InAgeRange(a, age_range) == age[a] >= age_range[1] /\ age[a] < age_range[2]
Selected(age_range) == {a \in Agents : InAgeRange(a, age_range)}
BuildFailed == phase \notin {"building", "built"}

\* C28: for every layer built with an age range (min, max), both endpoints of
\* every edge of that layer are agents whose age lies in [min, max).
C28_AgeRange ==
    \A lkey \in DOMAIN contacts \cap Range(layer_keys) :
        ConfigOf(lkey).age_range # NoAgeRange =>
            \A n \in DOMAIN contacts[lkey] :
                /\ InAgeRange(contacts[lkey][n].p1, ConfigOf(lkey).age_range)
                /\ InAgeRange(contacts[lkey][n].p2, ConfigOf(lkey).age_range)

\* C29: a build with a layer whose topology kind is not one of the recognized
\* kinds fails, whatever the position of that layer in the configuration: once the
\* loop has been through such a layer the build has ended with an error, and no
\* layer of the population carries such a configuration's name (no layer is built
\* from another layer's contacts).
C29_UnknownKindFails ==
    \A config \in Processed :
        ~Recognized(config) => BuildFailed /\ config.name \notin DOMAIN contacts

\* C30: when a layer's age range selects zero agents, the layer is generated over
\* all agents (its contacts are contacts the generator returns for the full
\* population) and the build continues without error.
C30_EmptyFallback ==
    \A config \in Processed :
        (Recognized(config) /\ config.age_range # NoAgeRange
                            /\ Selected(config.age_range) = {}) =>
            /\ ~BuildFailed
            /\ config.name \in DOMAIN contacts
            /\ contacts[config.name] \in Generator(config.network_type, NAgents)

\* ------------------------------------------------------------------------
\* Properties of two runs on the same inputs
\* ------------------------------------------------------------------------
\* the endpoints of the edges of a layer, in order
EndpointsOf(edges) == [n \in DOMAIN edges |-> <<edges[n].p1, edges[n].p2>>]

C31_RegionInternal ==
    \A lkey \in DOMAIN contacts \cap Range(layer_keys) :
        \A n \in DOMAIN contacts[lkey] :
            country[contacts[lkey][n].p1] = country[contacts[lkey][n].p2]

\* ------------------------------------------------------------------------
\* Properties of the single-layer machine
\* ------------------------------------------------------------------------
EdgesOf(lkey, a) ==
    {n \in DOMAIN contacts[lkey] : contacts[lkey][n].p1 = a \/ contacts[lkey][n].p2 = a}
Other(e, a) == IF e.p1 = a THEN e.p2 ELSE e.p1

\* every cross edge has the cross beta if an endpoint is away and 0 otherwise, and
\* every edge of an away crosser is 0 on base and active on cross
CrossWeightsByEdge ==
    /\ \A n \in DOMAIN contacts["cross"] :
          contacts["cross"][n].beta =
              IF Away(contacts["cross"][n].p1) \/ Away(contacts["cross"][n].p2)
              THEN cfg.cross_betas["cross"] ELSE 0
    /\ (\A a \in Agents : crosser[a] => ~Away(a)) =>
          \A n \in DOMAIN contacts["cross"] : contacts["cross"][n].beta = 0
    /\ \A a \in Agents : (crosser[a] /\ Away(a)) =>
          /\ \A n \in EdgesOf("base", a) : contacts["base"][n].beta = 0
          /\ \A n \in EdgesOf("cross", a) :
                contacts["cross"][n].beta = cfg.cross_betas["cross"]

Opposite(r) ==
    IF r = SelectedRegions(mode, country)[1] THEN SelectedRegions(mode, country)[2]
    ELSE SelectedRegions(mode, country)[1]

\* the number of positions of layer lkey whose edge is e
Multiplicity(lkey, e) == Cardinality({n \in DOMAIN contacts[lkey] : contacts[lkey][n] = e})

\* C33: the single synthesized cross layer has exactly k * (number of crossers)
\* edges: k edges per crosser with the crosser as first endpoint and a partner of
\* the opposite region as second endpoint, duplicate edges kept, every edge with
\* the configured uniform weight; with k >= 1 and two non-empty regions the edge
\* count is non-zero.
C33_EdgeCount ==
    (Synthesized /\ mode = "single" /\ "n_cross_per_person" \in DOMAIN synth_args) =>
        LET k == synth_args.n_cross_per_person
            cross == contacts["cross"]
        IN /\ Len(cross) = k * Cardinality({a \in Agents : crosser[a]})
           /\ Len(cross) > 0
           /\ \A a \in Agents :
                 Cardinality({n \in DOMAIN cross : cross[n].p1 = a})
                     = IF crosser[a] THEN k ELSE 0
           /\ \A n \in DOMAIN cross :
                 /\ country[cross[n].p2] = Opposite(country[cross[n].p1])
                 /\ cross[n].beta = DefaultCrossBeta

\* two crossers of one region, one of which drew the same partner twice
C33_Witness ==
    /\ Synthesized /\ mode = "single" /\ "n_cross_per_person" \in DOMAIN synth_args
    /\ synth_args.n_cross_per_person = 2
    /\ \E r \in Populated : Cardinality(CrossersOf(r)) = 2
    /\ \E n \in DOMAIN contacts["cross"] : Multiplicity("cross", contacts["cross"][n]) = 2

\* C34: after multilayer synthesis every crosser has exactly one purpose out of
\* work, visit, undocumented and every non-crosser has the empty purpose; a
\* purpose is given only when its fraction, normalized by the sum of the three,
\* is positive, and when the sum is <= 0 every crosser gets purpose work.
C34_OnePurpose ==
    (Synthesized /\ mode = "multi" /\ "frac_purpose" \in DOMAIN synth_args) =>
        LET pf == synth_args.frac_purpose
            total_frac == pf[1] + pf[2] + pf[3]
            Frac(p) == IF p = "work" THEN pf[1] ELSE IF p = "visit" THEN pf[2] ELSE pf[3]
        IN \A a \in Agents :
              IF crosser[a]
              THEN /\ crosser_purpose[a] \in {"work", "visit", "undocumented"}
                   /\ total_frac <= 0 => crosser_purpose[a] = "work"
                   /\ total_frac > 0 => Frac(crosser_purpose[a]) > 0
              ELSE crosser_purpose[a] = ""

\* under fractions (0, 1, 1) one crosser is a visitor and the other undocumented
C34_Witness ==
    /\ Synthesized /\ mode = "multi" /\ "frac_purpose" \in DOMAIN synth_args
    /\ synth_args.frac_purpose = <<0, 1, 1>>
    /\ \E a, b \in Agents :
          /\ crosser[a] /\ crosser[b]
          /\ crosser_purpose[a] = "visit" /\ crosser_purpose[b] = "undocumented"
    /\ \E a \in Agents : ~crosser[a]


\* ------------------------------------------------------------------------
\* my_utils: the border-testing subtarget of the multilayer scenarios
\* ------------------------------------------------------------------------
\* getattr(sim.people, 'undocumented', np.zeros(sim.n, dtype=bool)) in a scenario
\* without InjectUndocumentedInfectious: people has no such attribute
people_undocumented == [a \in Agents |-> FALSE]

\* in_a & np.asarray(sim.people.crosser)
is_position_a_crosser(a) == Located(_region_key)[a] = _region_name_a /\ crosser[a]

\* vals(sim): np.where(in_a_crosser & ~undocumented, float(crosser_prob), 0.0)
make_subtarget_crosser_exclude_undocumented(crosser_prob) ==
    [a \in Agents |->
        IF is_position_a_crosser(a) /\ ~people_undocumented[a] THEN crosser_prob ELSE 0]

\* C35: in the multilayer scenarios the testing weight returned by the border
\* subtarget is non-zero only for agents that are crossers, have position A and
\* do not have purpose undocumented, and is 0 for every other agent.
C35_BorderTesting ==
    (phase = "running" /\ mode = "multi") =>
        \A a \in Agents :
            make_subtarget_crosser_exclude_undocumented(1)[a] # 0
                <=> /\ crosser[a]
                    /\ position[a] = _region_name_a
                    /\ crosser_purpose[a] # "undocumented"


\* C36: at the end of every day in which the mobility machine ran first and a
\* weight cap, a phase scaling or an edge removal/restore ran after it, every
\* region-internal edge with at least one away endpoint has weight 0, edges
\* reinserted that day by a restore included.
C36_AwayEdgesSilent ==
    (EndOfDay /\ Installed("CrosserTravel") /\ Place("CrosserTravel") = 1) =>
        \A lkey \in DomesticKeys \cap DOMAIN contacts :
            \A n \in DOMAIN contacts[lkey] :
                (Away(contacts[lkey][n].p1) \/ Away(contacts[lkey][n].p2))
                    => contacts[lkey][n].beta = 0


\* ------------------------------------------------------------------------
\* Properties of the per-agent travel state
\* ------------------------------------------------------------------------
Pending(rd, a) == rd[a] # NaN

\* the step condition of C37
C37_PendingStep ==
    IsStep =>
        /\ \A a \in Agents :
              crosser[a] => (position'[a] # country'[a] <=> Pending(return_day', a))
        /\ \A a \in go_inds' : ~Pending(return_day, a) \/ a \in returning'
        /\ \A a \in Agents :
              (Pending(return_day, a) /\ return_day'[a] # return_day[a]) => a \in returning'

\* C37: at the end of every mobility step and for every crosser, position # country
\* holds iff the agent has a pending return-day; an agent with a pending return-day
\* is never selected to depart, so a pending return-day is never overwritten
\* before the agent has returned.
C37_PendingIffAway == [][C37_PendingStep]_vars

\* a step in which one crosser returned and stayed home, another departed, and a
\* third crosser or the same departed one is away with a pending return-day
C37_Witness ==
    /\ Stepped /\ t >= 2
    /\ \E a \in returning : ~Away(a) /\ ~Pending(return_day, a)
    /\ \E b \in go_inds : Away(b) /\ Pending(return_day, b)


\* nobody is quarantined or isolated
NoHold == quarantined = {} /\ isolated = {}

\* the window closed at end_day_outbound for good, and the day that ended last is
\* end_day_outbound + duration_max or later
ClosedLongEnough ==
    /\ Stepped
    /\ cfg.end_day_outbound # None /\ cfg.resume_day_outbound = None
    /\ Today >= cfg.end_day_outbound + cfg.duration_max

\* everybody is home, the region-internal layers are at 1 and the cross layers at 0
AllHome ==
    /\ \A a \in Agents : position[a] = country[a]
    /\ \A lkey \in DOMAIN contacts :
          \A n \in DOMAIN contacts[lkey] :
              contacts[lkey][n].beta = IF lkey \in DomesticKeys THEN BetaOne ELSE 0

\* C38: if the outbound window closes at end_day_outbound and is not reopened and
\* no agent is ever quarantined or isolated, then from day end_day_outbound +
\* duration_max on every agent has position = country, every region-internal edge
\* has weight 1 and every cross-layer edge weight 0, for every stay range
\* 0 <= duration_min <= duration_max.
C38_EveryoneReturns == []NoHold => [](ClosedLongEnough => AllHome)


\* the crossers the Departure step of the day counts as at home: not held, and
\* either without a return-day before the step or returned by its Return step
CountedAtHome ==
    {a \in Agents : /\ crosser[a]
                    /\ a \notin quarantined' \cup isolated'
                    /\ (~Pending(return_day, a) \/ a \in returning')}

\* the step condition of C40
C40_OrderStep ==
    IsStep =>
        /\ go_inds' \subseteq CountedAtHome
        /\ Cardinality(go_inds') =
              IF WindowOpen(t) THEN NGo(Cardinality(CountedAtHome), cfg.frac_cross_per_day)
              ELSE 0
        /\ \A a \in go_inds' :
              /\ position'[a] # country'[a]
              /\ Pending(return_day', a)
              /\ return_day'[a] >= t

\* C40: within one day Return strictly precedes Departure: an agent returned in
\* the Return step of day t counts as at-home for the Departure step of day t and
\* may be selected to depart again that day, whereas an agent that departs on day
\* t is never returned during day t.
C40_ReturnBeforeDeparture == [][C40_OrderStep]_vars

\* an agent that was returned and departed again within the same step
C40_Witness ==
    /\ Stepped /\ t >= 2
    /\ \E a \in returning \cap go_inds : Away(a) /\ Pending(return_day, a)


\* ------------------------------------------------------------------------
\* Properties of two removals on one layer
\* ------------------------------------------------------------------------
IsPairStep == phase = "pair" /\ t' = t + 1
PairLayer == contacts[LayerOf(iv.kind)]

\* the step condition of C39
C39_PairStep ==
    IsPairStep =>
        LET before == PairLayer
            after == contacts'[LayerOf(iv.kind)]
            back1 == IF iv.applied /\ ~iv'.applied THEN iv.stored ELSE <<>>
            back2 == IF iv2.applied /\ ~iv2'.applied THEN iv2.stored ELSE <<>>
        IN /\ (iv'.applied /\ iv2'.applied) =>
                 /\ Range(iv'.stored) \cap Range(iv2'.stored) = {}
                 /\ SamePairs(after \o iv'.stored \o iv2'.stored, hist'.before)
           /\ (back1 # <<>> \/ back2 # <<>>) => after = before \o back1 \o back2
           /\ (hist'.removed = 2 /\ hist'.restored = 2) =>
                 /\ SamePairs(after, hist'.before)
                 /\ Len(after) = Len(hist'.before)

\* C39: when two removal interventions act on the same layer with overlapping
\* windows, the two stored edge sets are disjoint, each intervention reinserts
\* only the edges it removed itself, and after both restores, in either order or
\* on the same day, the layer's multiset of edges (endpoint pairs with their
\* multiplicity) equals the multiset before the first removal.
C39_NestedRemovals == [][C39_PairStep]_vars

\* both interventions removed edges, the second while the first was active, and
\* both have restored, the one that removed second restoring first
C39_Witness ==
    /\ phase = "pair" /\ hist.removed = 2 /\ hist.restored = 2
    /\ iv.stored # <<>> /\ iv2.stored # <<>>
    /\ iv.start_day < iv2.start_day /\ iv2.end_day < iv.end_day

====
